---- MODULE Spec2Model ----
(***************************************************************************)
(* Model of the multi-stream analysis coordination engine of yt-scanner:   *)
(* VideoProcessor.processVideo (thumbnail pre-filter gate, result sink)    *)
(* and ProcessCoordinator (base dispatch, anchor wait, targeted dispatch,  *)
(* wait for all, aggregation).                                             *)
(*                                                                         *)
(* One action is one event-loop turn of the Node.js program: the code      *)
(* between two awaits runs without interleaving.  The detector adapters    *)
(* (VideoAnalyzer, AudioAnalyzer, TranscriptAnalyzer) and the database are *)
(* external calls: each either resolves with a value drawn from a small    *)
(* set, rejects, or stays pending.                                         *)
(*                                                                         *)
(* Spec follows one run of processVideo.  Three parts of the program are   *)
(* also followed on their own: AggSpec calls aggregateResults on          *)
(* snapshots of process records, reading the clock; DispSpec follows the   *)
(* dispatching code with the ids it gives the records and the map it       *)
(* stores them in; AdaptSpec follows the try and catch blocks of the three *)
(* detector adapters.  GateSpec follows the thumbnail pre-filter down to    *)
(* the text-detection provider; GiftSpec follows gift-code detection,      *)
(* normalisation and de-duplication over frame texts; SigSpec follows the  *)
(* webhook signature check; CleanSpec follows the retention cleanup;       *)
(* FrameSpec follows concurrent targeted frame extractions; AudioSpec      *)
(* follows the two passes of the audio detector over its segment files;    *)
(* ScanSpec follows a scan from the sampled frames to the codes of its     *)
(* process; MsgSpec follows the subscription handler; StoreSpec follows    *)
(* the result store; RunsSpec follows two runs on the one coordinator.     *)
(*                                                                         *)
(* Confidences are integers in hundredths (90 stands for 0.90).            *)
(* Time in the two wait loops is counted in poll intervals.                *)
(***************************************************************************)
EXTENDS Integers, Sequences, FiniteSets, TLC

\* ---------------------------------------------------------------- bounds
\* longest laughterPeaks / laughSegments list one detector returns
MaxEvents == 1
\* polls of waitForLaughTimestamps that fit in maxWaitTime (5 min / 1 s, scaled)
AnchorMaxPolls == 2
\* polls of waitForAllProcesses that fit in maxWaitTime (10 min / 2 s, scaled)
AllMaxPolls == 2
\* longest giftCodes list of one process record handed to aggregateResults
MaxAggCodes == 2
\* milliseconds that pass while aggregateResults is called twice
MaxAggClock == 1
\* milliseconds that pass while one run dispatches its processes
MaxDispClock == 2
\* most money matches in the text of a thumbnail
MaxMatches == 2
\* longest frameAnalysis list handed to extractGiftCodesFromFrames
MaxFrames == 2
\* most analysis results in the store when cleanup is called
MaxStored == 2
\* most frames ffmpeg extracts from the segment of one targeted process
MaxSegmentFrames == 2
\* most segments the audio of a video is split into
MaxAudioSegments == 2
\* Pub/Sub messages delivered to the subscription
MaxMessages == 3
\* calls of saveResult
MaxSaves == 2
\* milliseconds that pass while two runs share the coordinator
MaxRunsClock == 1

\* ------------------------------------------------------ program constants
\* startTargetedAnalysis: laughTimestamp.timestamp + 5
LeadSeconds == 5
\* startTargetedAnalysis: laughTimestamp.timestamp + 60
EndOffsetSeconds == 60
\* determineRecommendedAction: code.confidence > 0.8
HighConfidence == 80

\* ------------------------------------------------------------ input sets
Timestamps == {10, 42}

SeqsUpTo(S, n) == UNION { [1..k -> S] : k \in 0..n }

\* a GiftCodeDetection, reduced to the fields the coordinator reads
Detection(code, confidence) == [ code |-> code, confidence |-> confidence ]

\* the giftCodes lists a frame scan can come back with: nothing, one
\* high-confidence code, the same code at low confidence next to another code
CodeLists ==
  { << >>,
    << Detection("AAAA-112233-BBBB", 90) >>,
    << Detection("AAAA-112233-BBBB", 50), Detection("CCCC-445566-DDDD", 80) >> }

\* a LaughterDetection / TranscriptSegment, reduced to the field the
\* coordinator reads for dispatch
Events == { [startTime |-> t] : t \in Timestamps }

EventLists == SeqsUpTo(Events, MaxEvents)

\* -------------------------------------------------------------- records
NoResult == [kind |-> "none"]
NoError == "none"
NoCall == [kind |-> "none"]

\* interface AnalysisProcess; call holds the arguments the run* function
\* of a targeted process was invoked with
NewProcess(type, call) ==
  [ type |-> type, status |-> "pending", endTimeSet |-> FALSE,
    result |-> NoResult, error |-> NoError, call |-> call ]

Terminal(p) == p.status \in {"completed", "failed"}

VARIABLES
  vpc,               \* position of VideoProcessor.processVideo
  thumbnailAnalysis, \* result of analyzeThumbnail
  jobWrites,         \* statuses passed to database.updateJob, in order
  jobWritten,        \* statuses the job document was updated to, in order
  result,            \* local variable result of processVideo
  savedResult,       \* result stored by database.saveResult
  returned,          \* value processVideo returned to its caller
  cpc,               \* position of analyzeVideoForGiftCodes
  processes,         \* the three base AnalysisProcess records
  targetedProcesses, \* the targeted AnalysisProcess records
  laughTimestamps,   \* return value of waitForLaughTimestamps
  waitedLaugh,       \* polls slept in waitForLaughTimestamps
  waitedAll,         \* polls slept in waitForAllProcesses
  coordResult,       \* return value of aggregateResults
  aggSnapshot,       \* allProcesses handed to a call of aggregateResults
  aggNow,            \* Date.now(), in milliseconds since the first call
  aggFirst,          \* verdict returned by that call
  aggSecondSnapshot, \* allProcesses handed to a second call
  aggSecond,         \* verdict returned by the second call
  dpc,               \* position of the dispatching code of one run
  dNow,              \* Date.now(), in milliseconds since the run began
  dProcesses,        \* the records created so far, with their ids
  dLaughTimestamps,  \* what the loop of startTargetedAnalysis has yet to visit
  activeProcesses,   \* ProcessCoordinator.activeProcesses: id -> record
  analyzeVideoCall,      \* a call of VideoAnalyzer.analyzeVideo
  analyzeAudioCall,      \* a call of AudioAnalyzer.analyzeAudio
  analyzeTranscriptCall, \* a call of TranscriptAnalyzer.analyzeTranscript
  gpc,               \* position of the thumbnail pre-filter of one run
  visionFailed,      \* whether client.textDetection rejected
  ocrResult,         \* return value of OCRService.performOCR
  gateAnalysis,      \* return value of ThumbnailAnalyzer.analyzeThumbnail
  gateResult,        \* the result processVideo builds when it skips
  giftFrames,        \* frameAnalysis handed to extractGiftCodesFromFrames
  giftPushed,        \* per frame visited, giftCodes of detectGiftCodes
  giftFrameCodes,    \* per frame visited, what detectGiftCodes returned
  giftUnique,        \* return value of extractGiftCodesFromFrames
  giftReapplied,     \* the two duplicate removals applied to their outputs
  giftNormalized,    \* normalizeGiftCode applied once and twice
  sigBody,           \* body of a webhook request
  sigSignature,      \* its x-hub-signature header
  sigSecret,         \* process.env.WEBHOOK_SECRET
  sigValid,          \* return value of verifySignature
  sigResponse,       \* what the webhook route did with the request
  clpc,              \* position of a call of DatabaseService.cleanup
  clOptions,         \* its argument
  clOlderThanDays,   \* olderThanDays as FirestoreService.cleanup receives it
  clStore,           \* the documents of the three collections
  clSnapshot,        \* the documents of the last query
  segmentCalls,      \* the calls of analyzeVideoSegment of one run
  segmentFrames,     \* the files of temp/segment-frames/<videoId>
  audioPasses,       \* the two passes of one call of analyzeAudio
  segmentFiles,      \* the files of temp/audio_segments/<videoId>
  audioTranscripts,  \* what the speech provider hears in each segment
  scanKind,          \* which scan is followed: the frame scan or a targeted scan
  scanFrames,        \* what is to be read on the sampled frames, frame after frame
  scanOutcomes,      \* what the batch callback returned for the frames so far
  scanReturned,      \* what analyzeVideo or analyzeVideoSegment returned
  scanProcessResult, \* process.result of the scan process
  messages,          \* the Pub/Sub messages delivered to handleMessage, with their settlement
  tasks,             \* the tasks client.createTask has created
  storePc,           \* where the caller of the result store stands
  storeArg,          \* the verdict saveResult, or the id getResult, was called with
  storeDocs,         \* the documents of video_analysis_results, by id
  storeSaved,        \* by id, the verdict of the last saveResult that resolved
  storeSaves,        \* how often saveResult was called
  storeRead,         \* what the last getResult returned
  runPc,             \* by run, where analyzeVideoForGiftCodes stands
  runVideoId,        \* by run, the videoId it was called with
  runProcesses,      \* by run, its local array processes, as references
  runTargeted,       \* by run, its local array targetedProcesses, as references
  runLaughTimestamps,\* by run, its local laughTimestamps
  runResult,         \* by run, the verdict it returned
  processObjects,    \* the AnalysisProcess objects, by reference
  sharedProcesses,   \* activeProcesses of the one coordinator: id to reference
  runsNow            \* Date.now(), in milliseconds

vars == << vpc, thumbnailAnalysis, jobWrites, jobWritten, result, savedResult, returned,
           cpc, processes, targetedProcesses, laughTimestamps, waitedLaugh,
           waitedAll, coordResult >>

vpVars == << vpc, thumbnailAnalysis, jobWrites, jobWritten, result, savedResult,
            returned >>

coordVars == << cpc, processes, targetedProcesses, laughTimestamps,
                waitedLaugh, waitedAll, coordResult >>

\* the state of aggregateResults called on its own
aggVars == << aggSnapshot, aggNow, aggFirst, aggSecondSnapshot, aggSecond >>

\* the state of the dispatching code followed with ids and the clock
dispVars == << dpc, dNow, dProcesses, dLaughTimestamps, activeProcesses >>

\* the state of the three detector adapters
adaptVars == << analyzeVideoCall, analyzeAudioCall, analyzeTranscriptCall >>

\* the state of the thumbnail pre-filter followed through the OCR provider
gateVars == << gpc, visionFailed, ocrResult, gateAnalysis, gateResult >>

\* the state of the gift code detection followed on its own
giftVars == << giftFrames, giftPushed, giftFrameCodes, giftUnique,
               giftReapplied, giftNormalized >>

\* the state of the webhook route followed on its own
sigVars == << sigBody, sigSignature, sigSecret, sigValid, sigResponse >>

\* the state of a call of cleanup followed on its own
cleanVars == << clpc, clOptions, clOlderThanDays, clStore, clSnapshot >>

\* the state of the targeted scans followed with their frame files
frameVars == << segmentCalls, segmentFrames >>

\* the state of the two audio passes followed with their segment files
audioVars == << audioPasses, segmentFiles, audioTranscripts >>

\* the state of a scan over sampled frames, from the frames to process.result
scanVars == << scanKind, scanFrames, scanOutcomes, scanReturned, scanProcessResult >>

\* the state of the subscription handler: the messages and the task queue
msgVars == << messages, tasks >>

\* the state of the result store and of a caller that saves and reads verdicts
storeVars == << storePc, storeArg, storeDocs, storeSaved, storeSaves, storeRead >>

\* the state of two runs of analyzeVideoForGiftCodes on one coordinator
runsVars == << runPc, runVideoId, runProcesses, runTargeted, runLaughTimestamps, runResult, processObjects, sharedProcesses, runsNow >>

\* the state of the further components that are exercised on their own
extVars == << gateVars, giftVars, sigVars, cleanVars, frameVars, audioVars, scanVars, msgVars, storeVars, runsVars >>

\* the state of the components that are exercised on their own
auxVars == << aggVars, dispVars, adaptVars, extVars >>

\* ------------------------------------------------- ProcessCoordinator, pure

\* const allProcesses = [...processes, ...targetedProcesses]
AllProcesses == processes \o targetedProcesses

HasField(r, f) == f \in DOMAIN r

\* aggregateResults, the collection loop: the field f of the result of
\* every process that is completed and has a result
RECURSIVE CollectField(_, _)
CollectField(procs, f) ==
  IF procs = << >> THEN << >>
  ELSE LET p == Head(procs)
       IN  (IF p.status = "completed" /\ p.result # NoResult /\ HasField(p.result, f)
            THEN p.result[f] ELSE << >>)
           \o CollectField(Tail(procs), f)

\* array.findIndex(c => c.code === code.code)
FindIndex(array, code) ==
  CHOOSE i \in 1..Len(array) :
    /\ array[i].code = code
    /\ \A j \in 1..(i - 1) : array[j].code # code

\* .filter((code, index, array) => array.findIndex(...) === index)
RECURSIVE FilterFirstFrom(_, _)
FilterFirstFrom(array, index) ==
  IF index > Len(array) THEN << >>
  ELSE (IF FindIndex(array, array[index].code) = index
        THEN << array[index] >> ELSE << >>)
       \o FilterFirstFrom(array, index + 1)

\* variant: duplicates are recognised by the text as it was read, not by
\* the normalized code
UniqueGiftCodesByRawText(allGiftCodes) ==
  LET kept ==
       SelectSeq([ i \in 1..Len(allGiftCodes) |->
               [ at |-> i, code |-> allGiftCodes[i] ] ],
            LAMBDA e : \A j \in 1..(e.at - 1) :
                         allGiftCodes[j].rawText # e.code.rawText)
  IN  [ k \in 1..Len(kept) |-> kept[k].code ]

UniqueGiftCodes(allGiftCodes) == FilterFirstFrom(allGiftCodes, 1)

\* variant: a confidence of exactly 0.8 counts as high
HighConfidenceCodesInclusive(giftCodes) ==
  SelectSeq(giftCodes, LAMBDA code : code.confidence >= HighConfidence)

HighConfidenceCodes(giftCodes) ==
  SelectSeq(giftCodes, LAMBDA code : code.confidence > HighConfidence)

DetermineRecommendedAction(giftCodes) ==
  IF Len(giftCodes) = 0 THEN "ignore"
  ELSE IF Len(HighConfidenceCodes(giftCodes)) > 0 THEN "investigate"
  ELSE "monitor"

RECURSIVE SumConfidence(_)
SumConfidence(giftCodes) ==
  IF giftCodes = << >> THEN 0
  ELSE Head(giftCodes).confidence + SumConfidence(Tail(giftCodes))

\* variant: the average is truncated to two decimals, Math.floor for
\* Math.round
CalculateOverallConfidenceTruncated(giftCodes) ==
  IF Len(giftCodes) = 0 THEN 0
  ELSE SumConfidence(giftCodes) \div Len(giftCodes)

\* Math.round(avgConfidence * 100) / 100, in hundredths
CalculateOverallConfidence(giftCodes) ==
  IF Len(giftCodes) = 0 THEN 0
  ELSE (2 * SumConfidence(giftCodes) + Len(giftCodes)) \div (2 * Len(giftCodes))

GenerateKeyFindings(giftCodes, laughterEvents) ==
  LET codeFindings ==
        IF Len(giftCodes) > 0
        THEN << << "Found potential Amazon gift code(s)", Len(giftCodes) >> >>
             \o (IF Len(HighConfidenceCodes(giftCodes)) > 0
                 THEN << << "high-confidence gift code detection(s)",
                            Len(HighConfidenceCodes(giftCodes)) >> >>
                 ELSE << >>)
        ELSE << >>
      laughFindings ==
        IF Len(laughterEvents) > 0
        THEN << << "Detected laughter event(s)", Len(laughterEvents) >> >>
        ELSE << >>
      findings == codeFindings \o laughFindings
  IN  IF Len(findings) = 0
      THEN << << "No significant findings detected", 0 >> >>
      ELSE findings

AggregateResults(procs) ==
  LET allGiftCodes == CollectField(procs, "giftCodes")
      allLaughterEvents == CollectField(procs, "laughterPeaks")
      uniqueGiftCodes == UniqueGiftCodes(allGiftCodes)
  IN  [ giftCodes |-> uniqueGiftCodes,
        laughterEvents |-> allLaughterEvents,
        summary |-> [ recommendedAction |-> DetermineRecommendedAction(uniqueGiftCodes),
                      confidence |-> CalculateOverallConfidence(uniqueGiftCodes),
                      keyFindings |-> GenerateKeyFindings(uniqueGiftCodes, allLaughterEvents) ] ]

\* variant: a transcript event whose timestamp an audio event already has
\* is merged into it
ExtractLaughTimestampsMerged(audioProcess, transcriptProcess) ==
  LET audioEvents ==
        IF HasField(audioProcess.result, "laughterPeaks")
        THEN [ i \in 1..Len(audioProcess.result.laughterPeaks) |->
                 [ timestamp |-> audioProcess.result.laughterPeaks[i].startTime,
                   source |-> "audio" ] ]
        ELSE << >>
      transcriptEvents ==
        IF HasField(transcriptProcess.result, "laughSegments")
        THEN [ i \in 1..Len(transcriptProcess.result.laughSegments) |->
                 [ timestamp |-> transcriptProcess.result.laughSegments[i].startTime,
                   source |-> "transcript" ] ]
        ELSE << >>
  IN  audioEvents \o
      SelectSeq(transcriptEvents,
                LAMBDA e : \A i \in 1..Len(audioEvents) :
                             audioEvents[i].timestamp # e.timestamp)

\* waitForLaughTimestamps, the two extraction loops
ExtractLaughTimestamps(audioProcess, transcriptProcess) ==
  (IF HasField(audioProcess.result, "laughterPeaks")
   THEN [ i \in 1..Len(audioProcess.result.laughterPeaks) |->
            [ timestamp |-> audioProcess.result.laughterPeaks[i].startTime,
              source |-> "audio" ] ]
   ELSE << >>)
  \o
  (IF HasField(transcriptProcess.result, "laughSegments")
   THEN [ i \in 1..Len(transcriptProcess.result.laughSegments) |->
            [ timestamp |-> transcriptProcess.result.laughSegments[i].startTime,
              source |-> "transcript" ] ]
   ELSE << >>)

\* variant: the segment is 60 seconds long, counted from its start
TargetWindowLeadPlusLength(laughTimestamp) ==
  [ startTime |-> laughTimestamp.timestamp + LeadSeconds,
    endTime |-> laughTimestamp.timestamp + LeadSeconds + EndOffsetSeconds ]

\* startTargetedAnalysis: startTime and endTime of the segment to analyse
TargetWindow(laughTimestamp) ==
  [ startTime |-> laughTimestamp.timestamp + LeadSeconds,
    endTime |-> laughTimestamp.timestamp + EndOffsetSeconds ]

\* processes.find(p => p.type === type)
FindProcess(procs, type) ==
  LET idx == { i \in 1..Len(procs) : procs[i].type = type }
  IN  procs[CHOOSE i \in idx : \A j \in idx : i <= j]

IsPending(p) == p.status = "pending" \/ p.status = "running"


\* ------------------------------------------------ VideoProcessor, pure

\* what analyzeThumbnail can return: hasMoneyThumbnail is
\* monetaryDetections.length > 0
ThumbnailResults ==
  { [ monetaryDetections |-> << >>, hasMoneyThumbnail |-> FALSE ],
    [ monetaryDetections |-> << 550 >>, hasMoneyThumbnail |-> TRUE ] }

\* variant: the thumbnail gate never skips the detailed analysis
SkipDetailedAnalysisNever(thumbnail) == FALSE

\* processVideo: if (!thumbnailAnalysis.hasMoneyThumbnail)
SkipDetailedAnalysis(thumbnail) == ~ thumbnail.hasMoneyThumbnail

CreateMinimalResult(thumbnail) ==
  [ thumbnailAnalysis |-> thumbnail,
    videoAnalysis |-> [ giftCodes |-> << >>, laughterEvents |-> << >> ],
    summary |-> [ codesFound |-> 0, laughterEvents |-> 0,
                  confidenceScore |-> 0, recommendedAction |-> "ignore" ] ]

CompileCoordinatedResults(thumbnail, coordinatedResult) ==
  [ thumbnailAnalysis |-> thumbnail,
    giftCodes |-> coordinatedResult.giftCodes,
    laughterEvents |-> coordinatedResult.laughterEvents,
    summary |-> coordinatedResult.summary ]

\* ------------------------------------------------------------------ Init
\* processVideo has not been called yet
RunNotStarted ==
  /\ vpc = "start"
  /\ thumbnailAnalysis = NoResult
  /\ jobWrites = << >>
  /\ jobWritten = << >>
  /\ result = NoResult
  /\ savedResult = NoResult
  /\ returned = NoResult
  /\ cpc = "idle"
  /\ processes = << >>
  /\ targetedProcesses = << >>
  /\ laughTimestamps = << >>
  /\ waitedLaugh = 0
  /\ waitedAll = 0
  /\ coordResult = NoResult

\* aggregateResults is not being exercised on its own
AggIdle ==
  /\ aggSnapshot = << >>
  /\ aggNow = 0
  /\ aggFirst = NoResult
  /\ aggSecondSnapshot = << >>
  /\ aggSecond = NoResult

\* the dispatching code is not being followed with ids and the clock
DispIdle ==
  /\ dpc = "idle"
  /\ dNow = 0
  /\ dProcesses = << >>
  /\ dLaughTimestamps = << >>
  /\ activeProcesses = << >>

\* a call of an adapter: where it is, whether its provider failed, and
\* the value it returned
AdapterCall(pc, providerFailed, value) ==
  [ pc |-> pc, providerFailed |-> providerFailed, value |-> value ]

\* the adapters are not being followed
AdaptIdle ==
  /\ analyzeVideoCall = AdapterCall("idle", FALSE, NoResult)
  /\ analyzeAudioCall = AdapterCall("idle", FALSE, NoResult)
  /\ analyzeTranscriptCall = AdapterCall("idle", FALSE, NoResult)

\* the thumbnail pre-filter is not being followed through the OCR provider
GateIdle ==
  /\ gpc = "idle"
  /\ visionFailed = FALSE
  /\ ocrResult = NoResult
  /\ gateAnalysis = NoResult
  /\ gateResult = NoResult

\* the gift code detection is not being followed
GiftIdle ==
  /\ giftFrames = << >>
  /\ giftPushed = << >>
  /\ giftFrameCodes = << >>
  /\ giftUnique = NoResult
  /\ giftReapplied = NoResult
  /\ giftNormalized = NoResult

\* the webhook route is not being followed
SigIdle ==
  /\ sigBody = << >>
  /\ sigSignature = [ present |-> FALSE ]
  /\ sigSecret = [ present |-> FALSE ]
  /\ sigValid = "none"
  /\ sigResponse = "none"

\* cleanup is not being followed
CleanIdle ==
  /\ clpc = "idle"
  /\ clOptions = NoResult
  /\ clOlderThanDays = 0
  /\ clStore = NoResult
  /\ clSnapshot = {}

\* the targeted scans are not being followed with their frame files
FrameIdle ==
  /\ segmentCalls = << >>
  /\ segmentFrames = << >>

\* the audio passes are not being followed with their segment files
AudioIdle ==
  /\ audioPasses = << >>
  /\ segmentFiles = << >>
  /\ audioTranscripts = << >>

\* no scan over sampled frames is being followed
ScanIdle ==
  /\ scanKind = "full"
  /\ scanFrames = << >>
  /\ scanOutcomes = << >>
  /\ scanReturned = NoResult
  /\ scanProcessResult = NoResult

\* no Pub/Sub message has been delivered
MsgIdle ==
  /\ messages = << >>
  /\ tasks = {}

\* the result store is not being followed
StoreIdle ==
  /\ storePc = "idle"
  /\ storeArg = NoResult
  /\ storeDocs = << >>
  /\ storeSaved = << >>
  /\ storeSaves = 0
  /\ storeRead = NoResult

\* no run on a shared coordinator is being followed
RunsIdle ==
  /\ runPc = << >>
  /\ runVideoId = << >>
  /\ runProcesses = << >>
  /\ runTargeted = << >>
  /\ runLaughTimestamps = << >>
  /\ runResult = << >>
  /\ processObjects = << >>
  /\ sharedProcesses = << >>
  /\ runsNow = 0

\* the further components are not being exercised
ExtIdle == GateIdle /\ GiftIdle /\ SigIdle /\ CleanIdle /\ FrameIdle /\ AudioIdle /\ ScanIdle /\ MsgIdle /\ StoreIdle /\ RunsIdle

Init == RunNotStarted /\ AggIdle /\ DispIdle /\ AdaptIdle /\ ExtIdle

\* --------------------------------------------- VideoProcessor.processVideo

\* the catch block: updateJob(status 'failed') is called, then the error
\* is rethrown
EnterCatch ==
  /\ jobWrites' = Append(jobWrites, "failed")
  /\ vpc' = "awaitUpdateFailed"

\* entry, up to the call of updateJob(status 'processing')
PVStart ==
  /\ vpc = "start"
  /\ jobWrites' = Append(jobWrites, "processing")
  /\ vpc' = "awaitUpdateProcessing"
  /\ UNCHANGED << thumbnailAnalysis, jobWritten, result, savedResult, returned >>
  /\ UNCHANGED coordVars
  /\ UNCHANGED auxVars

\* updateJob settles; on success analyzeThumbnail is called
PVAfterUpdateProcessing ==
  /\ vpc = "awaitUpdateProcessing"
  /\ \E ok \in BOOLEAN :
       IF ok
       THEN /\ jobWritten' = Append(jobWritten, "processing")
            /\ vpc' = "awaitThumbnail"
            /\ UNCHANGED jobWrites
       ELSE /\ EnterCatch
            /\ UNCHANGED jobWritten
  /\ UNCHANGED << thumbnailAnalysis, result, savedResult, returned >>
  /\ UNCHANGED coordVars
  /\ UNCHANGED auxVars

\* analyzeThumbnail rejects
PVThumbnailThrows ==
  /\ vpc = "awaitThumbnail"
  /\ EnterCatch
  /\ UNCHANGED << thumbnailAnalysis, jobWritten, result, savedResult, returned >>
  /\ UNCHANGED coordVars
  /\ UNCHANGED auxVars

\* analyzeThumbnail resolves; either the minimal result is built and
\* saveResult is called, or the coordinated analysis is about to be called
PVAfterThumbnail ==
  /\ vpc = "awaitThumbnail"
  /\ \E thumbnail \in ThumbnailResults :
       /\ thumbnailAnalysis' = thumbnail
       /\ IF SkipDetailedAnalysis(thumbnail)
          THEN /\ result' = CreateMinimalResult(thumbnail)
               /\ vpc' = "awaitSave"
          ELSE /\ result' = result
               /\ vpc' = "callCoordinator"
  /\ UNCHANGED << jobWrites, jobWritten, savedResult, returned >>
  /\ UNCHANGED coordVars
  /\ UNCHANGED auxVars

\* analyzeVideoForGiftCodes resolved: compileCoordinatedResults, then
\* saveResult is called
PVCompile ==
  /\ vpc = "awaitCoordinated"
  /\ cpc = "done"
  /\ result' = CompileCoordinatedResults(thumbnailAnalysis, coordResult)
  /\ vpc' = "awaitSave"
  /\ UNCHANGED << thumbnailAnalysis, jobWrites, jobWritten, savedResult, returned >>
  /\ UNCHANGED coordVars
  /\ UNCHANGED auxVars

\* saveResult settles; on success updateJob(status 'completed') is called
PVAfterSave ==
  /\ vpc = "awaitSave"
  /\ \E ok \in BOOLEAN :
       IF ok
       THEN /\ savedResult' = result
            /\ jobWrites' = Append(jobWrites, "completed")
            /\ vpc' = "awaitUpdateCompleted"
       ELSE /\ EnterCatch
            /\ UNCHANGED savedResult
  /\ UNCHANGED << thumbnailAnalysis, jobWritten, result, returned >>
  /\ UNCHANGED coordVars
  /\ UNCHANGED auxVars

\* variant: after the job was updated the notification throws
PVAfterUpdateCompletedNotificationThrows ==
  /\ vpc = "awaitUpdateCompleted"
  /\ \E ok \in BOOLEAN :
       /\ jobWritten' = IF ok THEN Append(jobWritten, "completed") ELSE jobWritten
       /\ EnterCatch
       /\ UNCHANGED returned
  /\ UNCHANGED << thumbnailAnalysis, result, savedResult >>
  /\ UNCHANGED coordVars
  /\ UNCHANGED auxVars

\* updateJob(status 'completed') settles; on success the result is returned
PVAfterUpdateCompleted ==
  /\ vpc = "awaitUpdateCompleted"
  /\ \E ok \in BOOLEAN :
       IF ok
       THEN /\ jobWritten' = Append(jobWritten, "completed")
            /\ returned' = result
            /\ vpc' = "returned"
            /\ UNCHANGED jobWrites
       ELSE /\ EnterCatch
            /\ UNCHANGED << jobWritten, returned >>
  /\ UNCHANGED << thumbnailAnalysis, result, savedResult >>
  /\ UNCHANGED coordVars
  /\ UNCHANGED auxVars

\* updateJob(status 'failed') settles either way; processVideo throws
PVThrow ==
  /\ vpc = "awaitUpdateFailed"
  /\ \E ok \in BOOLEAN :
       jobWritten' = IF ok THEN Append(jobWritten, "failed") ELSE jobWritten
  /\ vpc' = "threw"
  /\ UNCHANGED << thumbnailAnalysis, jobWrites, result, savedResult, returned >>
  /\ UNCHANGED coordVars
  /\ UNCHANGED auxVars

\* ------------------------------------------------------ ProcessCoordinator

\* run*Analysis up to its first await: process.status = 'running'
RunStart(p) == [ p EXCEPT !.status = "running" ]

\* variant: the success path does not stamp endTime
RunCompletedNoEndTime(p, res) ==
  [ p EXCEPT !.result = res, !.status = "completed" ]

\* run*Analysis after the adapter resolved
RunCompleted(p, res) ==
  [ p EXCEPT !.result = res, !.status = "completed", !.endTimeSet = TRUE ]

\* variant: the catch block does not record the error message
RunFailedNoReason(p, message) ==
  [ p EXCEPT !.status = "failed", !.endTimeSet = TRUE ]

\* variant: the catch block stores an empty fallback payload in result
RunFailedWithFallbackResult(p, message) ==
  [ p EXCEPT !.status = "failed", !.error = message, !.endTimeSet = TRUE,
             !.result = [ giftCodes |-> << >> ] ]

\* run*Analysis, the catch block
RunFailed(p, message) ==
  [ p EXCEPT !.status = "failed", !.error = message, !.endTimeSet = TRUE ]

\* analyzeVideoForGiftCodes is called; startParallelAnalysis creates the
\* three records and calls the three run* functions, each of which runs up
\* to the await of its adapter; then Promise.all is awaited
StartParallelAnalysis ==
  /\ vpc = "callCoordinator"
  /\ cpc = "idle"
  /\ processes' = << RunStart(NewProcess("full-video", NoCall)),
                     RunStart(NewProcess("audio", NoCall)),
                     RunStart(NewProcess("transcript", NoCall)) >>
  /\ cpc' = "awaitBase"
  /\ vpc' = "awaitCoordinated"
  /\ UNCHANGED << thumbnailAnalysis, jobWrites, jobWritten, result, savedResult, returned >>
  /\ UNCHANGED << targetedProcesses, laughTimestamps, waitedLaugh, waitedAll,
                  coordResult >>
  /\ UNCHANGED auxVars

\* videoAnalyzer.analyzeVideo resolves in runFullVideoAnalysis
FullVideoResolves ==
  /\ processes # << >>
  /\ processes[1].status = "running"
  /\ \E codes \in CodeLists :
       processes' = [ processes EXCEPT
                        ![1] = RunCompleted(@, [ giftCodes |-> codes ]) ]
  /\ UNCHANGED vpVars
  /\ UNCHANGED auxVars
  /\ UNCHANGED << cpc, targetedProcesses, laughTimestamps, waitedLaugh,
                  waitedAll, coordResult >>

\* variant: the catch block of runFullVideoAnalysis also runs for a throw
\* that follows process.status = 'completed'
FullVideoRejectsAfterCompleted ==
  /\ processes # << >>
  /\ processes[1].status \in {"running", "completed"}
  /\ processes' = [ processes EXCEPT ![1] = RunFailed(@, "video error") ]
  /\ UNCHANGED vpVars
  /\ UNCHANGED auxVars
  /\ UNCHANGED << cpc, targetedProcesses, laughTimestamps, waitedLaugh,
                  waitedAll, coordResult >>

\* videoAnalyzer.analyzeVideo rejects in runFullVideoAnalysis
FullVideoRejects ==
  /\ processes # << >>
  /\ processes[1].status = "running"
  /\ processes' = [ processes EXCEPT ![1] = RunFailed(@, "video error") ]
  /\ UNCHANGED vpVars
  /\ UNCHANGED auxVars
  /\ UNCHANGED << cpc, targetedProcesses, laughTimestamps, waitedLaugh,
                  waitedAll, coordResult >>

\* audioAnalyzer.analyzeAudio resolves in runAudioAnalysis
AudioResolves ==
  /\ processes # << >>
  /\ processes[2].status = "running"
  /\ \E peaks \in EventLists :
       processes' = [ processes EXCEPT
                        ![2] = RunCompleted(@, [ laughterPeaks |-> peaks ]) ]
  /\ UNCHANGED vpVars
  /\ UNCHANGED auxVars
  /\ UNCHANGED << cpc, targetedProcesses, laughTimestamps, waitedLaugh,
                  waitedAll, coordResult >>

\* the try block of runAudioAnalysis throws
AudioRejects ==
  /\ processes # << >>
  /\ processes[2].status = "running"
  /\ processes' = [ processes EXCEPT ![2] = RunFailed(@, "audio error") ]
  /\ UNCHANGED vpVars
  /\ UNCHANGED auxVars
  /\ UNCHANGED << cpc, targetedProcesses, laughTimestamps, waitedLaugh,
                  waitedAll, coordResult >>

\* transcriptAnalyzer.analyzeTranscript resolves in runTranscriptAnalysis;
\* laughSegments is findLaughSegments(result.segments)
TranscriptResolves ==
  /\ processes # << >>
  /\ processes[3].status = "running"
  /\ \E segments \in EventLists :
       processes' = [ processes EXCEPT
                        ![3] = RunCompleted(@, [ laughSegments |-> segments ]) ]
  /\ UNCHANGED vpVars
  /\ UNCHANGED auxVars
  /\ UNCHANGED << cpc, targetedProcesses, laughTimestamps, waitedLaugh,
                  waitedAll, coordResult >>

\* the try block of runTranscriptAnalysis throws
TranscriptRejects ==
  /\ processes # << >>
  /\ processes[3].status = "running"
  /\ processes' = [ processes EXCEPT ![3] = RunFailed(@, "transcript error") ]
  /\ UNCHANGED vpVars
  /\ UNCHANGED auxVars
  /\ UNCHANGED << cpc, targetedProcesses, laughTimestamps, waitedLaugh,
                  waitedAll, coordResult >>

\* Promise.all of the three run* promises resolves: every one of them has
\* returned; waitForLaughTimestamps is entered
BasePromisesSettled(procs) == \A i \in 1..Len(procs) : Terminal(procs[i])

PromiseAllResolves ==
  /\ cpc = "awaitBase"
  /\ BasePromisesSettled(processes)
  /\ cpc' = "waitLaugh"
  /\ UNCHANGED vpVars
  /\ UNCHANGED auxVars
  /\ UNCHANGED << processes, targetedProcesses, laughTimestamps, waitedLaugh,
                  waitedAll, coordResult >>

\* waitForLaughTimestamps: the condition of the if inside the loop
BothCompleted(procs) ==
  /\ FindProcess(procs, "audio").status = "completed"
  /\ FindProcess(procs, "transcript").status = "completed"

\* one iteration of the loop that takes the if branch and breaks
WaitLaughBreak ==
  /\ cpc = "waitLaugh"
  /\ waitedLaugh < AnchorMaxPolls
  /\ BothCompleted(processes)
  /\ laughTimestamps' = ExtractLaughTimestamps(FindProcess(processes, "audio"),
                                               FindProcess(processes, "transcript"))
  /\ cpc' = "startTargeted"
  /\ UNCHANGED vpVars
  /\ UNCHANGED auxVars
  /\ UNCHANGED << processes, targetedProcesses, waitedLaugh, waitedAll, coordResult >>

\* one iteration of the loop that sleeps one poll interval
WaitLaughSleep ==
  /\ cpc = "waitLaugh"
  /\ waitedLaugh < AnchorMaxPolls
  /\ ~ BothCompleted(processes)
  /\ waitedLaugh' = waitedLaugh + 1
  /\ UNCHANGED vpVars
  /\ UNCHANGED auxVars
  /\ UNCHANGED << cpc, processes, targetedProcesses, laughTimestamps, waitedAll,
                  coordResult >>

\* the loop condition fails: maxWaitTime has passed
WaitLaughTimeout ==
  /\ cpc = "waitLaugh"
  /\ ~ (waitedLaugh < AnchorMaxPolls)
  /\ cpc' = "startTargeted"
  /\ UNCHANGED vpVars
  /\ UNCHANGED auxVars
  /\ UNCHANGED << processes, targetedProcesses, laughTimestamps, waitedLaugh,
                  waitedAll, coordResult >>

\* variant: targeted processes are dispatched from inside the anchor wait
\* loop, as soon as a laugh timestamp can be read
StartTargetedAnalysisEager ==
  /\ cpc = "waitLaugh"
  /\ targetedProcesses = << >>
  /\ LET found == ExtractLaughTimestamps(FindProcess(processes, "audio"),
                                         FindProcess(processes, "transcript"))
     IN  /\ found # << >>
         /\ targetedProcesses' =
              [ i \in 1..Len(found) |->
                  RunStart(NewProcess("targeted-video",
                                      [ timeRange |-> TargetWindow(found[i]),
                                        laughTimestamp |-> found[i] ])) ]
  /\ UNCHANGED vpVars
  /\ UNCHANGED auxVars
  /\ UNCHANGED << cpc, processes, laughTimestamps, waitedLaugh, waitedAll,
                  coordResult >>

\* startTargetedAnalysis: one record per laugh timestamp, each started by
\* runTargetedVideoAnalysis, which runs up to its first await
StartTargetedAnalysis ==
  /\ cpc = "startTargeted"
  /\ targetedProcesses' =
       [ i \in 1..Len(laughTimestamps) |->
           RunStart(NewProcess("targeted-video",
                               [ timeRange |-> TargetWindow(laughTimestamps[i]),
                                 laughTimestamp |-> laughTimestamps[i] ])) ]
  /\ cpc' = "waitAll"
  /\ UNCHANGED vpVars
  /\ UNCHANGED auxVars
  /\ UNCHANGED << processes, laughTimestamps, waitedLaugh, waitedAll, coordResult >>

\* variant: a targeted process that completes after aggregation adds its
\* codes to the verdict already returned
TargetedResolvesIntoVerdict ==
  \E i \in 1..Len(targetedProcesses) :
    /\ targetedProcesses[i].status = "running"
    /\ \E codes \in CodeLists :
         targetedProcesses' =
           [ targetedProcesses EXCEPT
               ![i] = RunCompleted(@, [ giftCodes |-> codes,
                                        timeRange |-> @.call.timeRange,
                                        laughTimestamp |-> @.call.laughTimestamp ]) ]
    /\ coordResult' = IF coordResult = NoResult THEN coordResult
                      ELSE AggregateResults(processes \o targetedProcesses')
    /\ UNCHANGED vpVars
    /\ UNCHANGED auxVars
    /\ UNCHANGED << cpc, processes, laughTimestamps, waitedLaugh, waitedAll >>

\* analyzeVideoSegment resolves in runTargetedVideoAnalysis; a failure of
\* videoAnalyzer.analyzeVideoSegment arrives here as an empty giftCodes
TargetedResolves ==
  \E i \in 1..Len(targetedProcesses) :
    /\ targetedProcesses[i].status = "running"
    /\ \E codes \in CodeLists :
         targetedProcesses' =
           [ targetedProcesses EXCEPT
               ![i] = RunCompleted(@, [ giftCodes |-> codes,
                                        timeRange |-> @.call.timeRange,
                                        laughTimestamp |-> @.call.laughTimestamp ]) ]
    /\ UNCHANGED vpVars
    /\ UNCHANGED auxVars
    /\ UNCHANGED << cpc, processes, laughTimestamps, waitedLaugh, waitedAll,
                    coordResult >>

\* waitForAllProcesses: pendingProcesses.length === 0, break
WaitAllBreak ==
  /\ cpc = "waitAll"
  /\ waitedAll < AllMaxPolls
  /\ \A i \in 1..Len(AllProcesses) : ~ IsPending(AllProcesses[i])
  /\ cpc' = "aggregate"
  /\ UNCHANGED vpVars
  /\ UNCHANGED auxVars
  /\ UNCHANGED << processes, targetedProcesses, laughTimestamps, waitedLaugh,
                  waitedAll, coordResult >>

\* waitForAllProcesses: some process is pending, sleep one poll interval
WaitAllSleep ==
  /\ cpc = "waitAll"
  /\ waitedAll < AllMaxPolls
  /\ \E i \in 1..Len(AllProcesses) : IsPending(AllProcesses[i])
  /\ waitedAll' = waitedAll + 1
  /\ UNCHANGED vpVars
  /\ UNCHANGED auxVars
  /\ UNCHANGED << cpc, processes, targetedProcesses, laughTimestamps, waitedLaugh,
                  coordResult >>

\* waitForAllProcesses: the loop condition fails, maxWaitTime has passed
WaitAllTimeout ==
  /\ cpc = "waitAll"
  /\ ~ (waitedAll < AllMaxPolls)
  /\ cpc' = "aggregate"
  /\ UNCHANGED vpVars
  /\ UNCHANGED auxVars
  /\ UNCHANGED << processes, targetedProcesses, laughTimestamps, waitedLaugh,
                  waitedAll, coordResult >>

\* aggregateResults(allProcesses), and analyzeVideoForGiftCodes returns
Aggregate ==
  /\ cpc = "aggregate"
  /\ coordResult' = AggregateResults(AllProcesses)
  /\ cpc' = "done"
  /\ UNCHANGED vpVars
  /\ UNCHANGED auxVars
  /\ UNCHANGED << processes, targetedProcesses, laughTimestamps, waitedLaugh,
                  waitedAll >>

\* the steps of the coordinator itself (not of the adapters)
CoordinatorStep ==
  \/ PromiseAllResolves
  \/ WaitLaughBreak
  \/ WaitLaughSleep
  \/ WaitLaughTimeout
  \/ StartTargetedAnalysis
  \/ WaitAllBreak
  \/ WaitAllSleep
  \/ WaitAllTimeout
  \/ Aggregate

Next ==
  \/ PVStart
  \/ PVAfterUpdateProcessing
  \/ PVThumbnailThrows
  \/ PVAfterThumbnail
  \/ PVCompile
  \/ PVAfterSave
  \/ PVAfterUpdateCompleted
  \/ PVThrow
  \/ StartParallelAnalysis
  \/ FullVideoResolves
  \/ FullVideoRejects
  \/ AudioResolves
  \/ AudioRejects
  \/ TranscriptResolves
  \/ TranscriptRejects
  \/ PromiseAllResolves
  \/ WaitLaughBreak
  \/ WaitLaughSleep
  \/ WaitLaughTimeout
  \/ StartTargetedAnalysis
  \/ TargetedResolves
  \/ WaitAllBreak
  \/ WaitAllSleep
  \/ WaitAllTimeout
  \/ Aggregate

Spec == Init /\ [][Next]_vars

\* the steps of processVideo itself
ProcessVideoStep ==
  \/ PVStart
  \/ PVAfterUpdateProcessing
  \/ PVThumbnailThrows
  \/ PVAfterThumbnail
  \/ PVCompile
  \/ PVAfterSave
  \/ PVAfterUpdateCompleted
  \/ PVThrow
  \/ StartParallelAnalysis

\* The event loop runs every continuation that is ready and every timer
\* that has expired, so the steps of processVideo and of the coordinator are
\* weakly fair.  The adapters are external calls: nothing obliges them to
\* settle, so they carry no fairness.
FairSpec == Spec /\ WF_vars(ProcessVideoStep) /\ WF_vars(CoordinatorStep)

\* ------------------------------------------ GiftCodeDetectionService
\* A string is the sequence of its characters.

Letters ==
  << "A","B","C","D","E","F","G","H","I","J","K","L","M",
     "N","O","P","Q","R","S","T","U","V","W","X","Y","Z" >>
LowerLetters ==
  << "a","b","c","d","e","f","g","h","i","j","k","l","m",
     "n","o","p","q","r","s","t","u","v","w","x","y","z" >>
Digits == { "0","1","2","3","4","5","6","7","8","9" }

\* the class [A-Z0-9]
Alphanumerics == { Letters[i] : i \in 1..26 } \cup Digits

\* the class \s, as far as the texts here go
Whitespace == { " ", "\t" }

\* String.prototype.toUpperCase, character by character
ToUpperCaseChar(ch) ==
  IF \E i \in 1..26 : LowerLetters[i] = ch
  THEN Letters[CHOOSE i \in 1..26 : LowerLetters[i] = ch]
  ELSE ch

ToUpperCase(str) == [ i \in 1..Len(str) |-> ToUpperCaseChar(str[i]) ]

\* n times the class cls
Times(n, cls) == [ i \in 1..n |-> cls ]

\* the four patterns of detectGiftCodes, each a sequence of classes
GroupedPattern(sep) ==
  Times(4, Alphanumerics) \o << sep >> \o Times(6, Alphanumerics)
    \o << sep >> \o Times(4, Alphanumerics)

\* pattern.toString() of the four patterns
HyphenPatternString ==
  << "/","(","[","A","-","Z","0","-","9","]","{","4","}","-","[","A","-",
     "Z","0","-","9","]","{","6","}","-","[","A","-","Z","0","-","9","]",
     "{","4","}",")","/","g" >>
SpacePatternString ==
  << "/","(","[","A","-","Z","0","-","9","]","{","4","}","\\","s","[","A",
     "-","Z","0","-","9","]","{","6","}","\\","s","[","A","-","Z","0","-",
     "9","]","{","4","}",")","/","g" >>
CompactPatternString ==
  << "/","(","[","A","-","Z","0","-","9","]","{","1","4","}",")","/","g" >>
MixedPatternString ==
  << "/","(","[","A","-","Z","0","-","9","]","{","4","}","[","_","-","]",
     "[","A","-","Z","0","-","9","]","{","6","}","[","_","-","]","[","A",
     "-","Z","0","-","9","]","{","4","}",")","/","g" >>

Patterns ==
  << [ classes |-> GroupedPattern({"-"}), string |-> HyphenPatternString ],
     [ classes |-> GroupedPattern(Whitespace), string |-> SpacePatternString ],
     [ classes |-> Times(14, Alphanumerics), string |-> CompactPatternString ],
     [ classes |-> GroupedPattern({"_", "-"}), string |-> MixedPatternString ] >>

\* whether the classes match the text at position pos (from 1)
MatchesAt(text, pos, classes) ==
  /\ pos + Len(classes) - 1 <= Len(text)
  /\ \A i \in 1..Len(classes) : text[pos + i - 1] \in classes[i]

\* the loop while ((match = pattern.exec(text)) !== null) of a global
\* pattern: the matches from left to right, each search starting where
\* the match before it ended
RECURSIVE ExecAll(_, _, _)
ExecAll(text, from, classes) ==
  IF \E pos \in from..Len(text) : MatchesAt(text, pos, classes)
  THEN LET pos == CHOOSE q \in from..Len(text) :
                    /\ MatchesAt(text, q, classes)
                    /\ \A r \in from..(q - 1) : ~ MatchesAt(text, r, classes)
       IN  << SubSeq(text, pos, pos + Len(classes) - 1) >>
             \o ExecAll(text, pos + Len(classes), classes)
  ELSE << >>

\* the characters normalizeGiftCode removes: /[-_\s]/g
Separators == {"-", "_"} \cup Whitespace

\* code.replace(/[-_\s]/g, '')
CleanCode(code) == SelectSeq(code, LAMBDA ch : ch \notin Separators)

\* String.prototype.slice(a, b) on a sequence of characters
Slice(str, a, b) ==
  SubSeq(str, a + 1, IF b < Len(str) THEN b ELSE Len(str))

\* variant: underscores are not removed
NormalizeGiftCodeKeepUnderscore(code) ==
  LET cleanCode == SelectSeq(code, LAMBDA ch : ch \notin Separators \ {"_"})
  IN  Slice(cleanCode, 0, 4) \o << "-" >> \o Slice(cleanCode, 4, 10)
        \o << "-" >> \o Slice(cleanCode, 10, 14)

\* variant: hyphens are not removed
NormalizeGiftCodeKeepHyphen(code) ==
  LET cleanCode == SelectSeq(code, LAMBDA ch : ch \notin Separators \ {"-"})
  IN  Slice(cleanCode, 0, 4) \o << "-" >> \o Slice(cleanCode, 4, 10)
        \o << "-" >> \o Slice(cleanCode, 10, 14)

\* GiftCodeDetectionService.normalizeGiftCode
NormalizeGiftCode(code) ==
  LET cleanCode == SelectSeq(code, LAMBDA ch : ch \notin Separators)
  IN  Slice(cleanCode, 0, 4) \o << "-" >> \o Slice(cleanCode, 4, 10)
        \o << "-" >> \o Slice(cleanCode, 10, 14)

\* isValidAmazonGiftCode
IsValidAmazonGiftCode(code) ==
  LET cleanCode == CleanCode(code)
  IN  /\ Len(cleanCode) = 14
      /\ \A i \in 1..Len(cleanCode) : cleanCode[i] \in Alphanumerics

\* String.prototype.includes
Includes(str, sub) ==
  \E i \in 1..(Len(str) - Len(sub) + 1) :
    SubSeq(str, i, i + Len(sub) - 1) = sub

\* the characters calculateCodeConfidence counts against a code
ExcludedChars == { "0", "O", "I", "1" }

\* hasTypicalAmazonPattern: no character four times in a row, and none of
\* ABCD, 1234, EFGH
HasTypicalAmazonPattern(code) ==
  /\ ~ \E i \in 1..(Len(code) - 3) :
         code[i] = code[i + 1] /\ code[i] = code[i + 2] /\ code[i] = code[i + 3]
  /\ ~ Includes(code, << "A","B","C","D" >>)
  /\ ~ Includes(code, << "1","2","3","4" >>)
  /\ ~ Includes(code, << "E","F","G","H" >>)

Max(a, b) == IF a >= b THEN a ELSE b
Min(a, b) == IF a <= b THEN a ELSE b

\* calculateCodeConfidence before Math.max(0.1, Math.min(1.0, confidence))
RawCodeConfidence(code, ocrConfidence) ==
  LET cleanCode == CleanCode(code)
      excludedCount ==
        Cardinality({ ch \in ExcludedChars :
                        \E i \in 1..Len(cleanCode) : cleanCode[i] = ch })
  IN  ocrConfidence
        + (IF Len(code) = 16 /\ MatchesAt(code, 1, GroupedPattern({"-"}))
           THEN 10 ELSE 0)
        - excludedCount * 5
        + (IF HasTypicalAmazonPattern(cleanCode) THEN 5 ELSE 0)

\* variant: the confidence is returned as it was computed
CalculateCodeConfidenceUnclamped(code, ocrConfidence) ==
  RawCodeConfidence(code, ocrConfidence)

\* calculateCodeConfidence, in hundredths
CalculateCodeConfidence(code, ocrConfidence) ==
  Max(10, Min(100, RawCodeConfidence(code, ocrConfidence)))

\* getDetectionMethod
GetDetectionMethod(pattern) ==
  IF Includes(pattern.string, << "-" >>) THEN "hyphen-separated"
  ELSE IF Includes(pattern.string, << "\\", "s" >>) THEN "space-separated"
  ELSE IF Includes(pattern.string, << "[", "_", "-", "]" >>)
       THEN "mixed-separators"
  ELSE IF Includes(pattern.string, << "{", "1", "4", "}" >>)
       THEN "compact-format"
  ELSE "unknown"

\* detectGiftCodes: the detection pushed for a match that is valid
GiftCodeDetection(code, ocrConfidence, pattern) ==
  [ code |-> NormalizeGiftCode(code),
    confidence |-> CalculateCodeConfidence(code, ocrConfidence),
    rawText |-> code,
    detectionMethod |-> GetDetectionMethod(pattern) ]

\* detectGiftCodes: the detections pushed for the matches of one pattern
RECURSIVE DetectionsOfMatches(_, _, _)
DetectionsOfMatches(matches, ocrConfidence, pattern) ==
  IF matches = << >> THEN << >>
  ELSE (IF IsValidAmazonGiftCode(Head(matches))
        THEN << GiftCodeDetection(Head(matches), ocrConfidence, pattern) >>
        ELSE << >>)
       \o DetectionsOfMatches(Tail(matches), ocrConfidence, pattern)

\* detectGiftCodes: the detections pushed for one OCR result, pattern
\* after pattern
RECURSIVE DetectionsOfPatterns(_, _)
DetectionsOfPatterns(ocr, patterns) ==
  IF patterns = << >> THEN << >>
  ELSE DetectionsOfMatches(
         ExecAll(ToUpperCase(ocr.text), 1, Head(patterns).classes),
         ocr.confidence, Head(patterns))
       \o DetectionsOfPatterns(ocr, Tail(patterns))

\* detectGiftCodes: giftCodes before the duplicates are removed
RECURSIVE AllDetections(_)
AllDetections(ocrResults) ==
  IF ocrResults = << >> THEN << >>
  ELSE DetectionsOfPatterns(Head(ocrResults), Patterns)
       \o AllDetections(Tail(ocrResults))

\* removeDuplicateCodes, the loop from the entry index on
RECURSIVE RemoveDuplicateCodesFrom(_, _, _)
RemoveDuplicateCodesFrom(codes, index, seen) ==
  IF index > Len(codes) THEN << >>
  ELSE LET normalizedCode == NormalizeGiftCode(codes[index].code)
       IN  IF normalizedCode \notin seen
           THEN << codes[index] >>
                  \o RemoveDuplicateCodesFrom(codes, index + 1,
                                              seen \cup {normalizedCode})
           ELSE RemoveDuplicateCodesFrom(codes, index + 1, seen)

\* variant: every detection is kept
RemoveDuplicateCodesKeepAll(codes) == codes

\* GiftCodeDetectionService.removeDuplicateCodes
RemoveDuplicateCodes(codes) == RemoveDuplicateCodesFrom(codes, 1, {})

\* GiftCodeDetectionService.detectGiftCodes
DetectGiftCodes(ocrResults) == RemoveDuplicateCodes(AllDetections(ocrResults))

\* --------------------------------------------- aggregateResults on its own

\* texts the patterns of detectGiftCodes match: one code written with
\* hyphens and without separators, a second code with hyphens, a third
\* with spaces
RawDashedA ==
  << "A","A","A","A","-","1","1","2","2","3","3","-","B","B","B","B" >>
RawCompactA ==
  << "A","A","A","A","1","1","2","2","3","3","B","B","B","B" >>
RawDashedC ==
  << "C","C","C","C","-","4","4","5","5","6","6","-","D","D","D","D" >>
RawSpacedE ==
  << "E","E","E","E"," ","7","7","8","8","9","9"," ","F","F","F","F" >>

\* detectGiftCodes: the GiftCodeDetection pushed for one match
GiftCodeFrom(rawText, confidence) ==
  [ code |-> NormalizeGiftCode(rawText), confidence |-> confidence,
    rawText |-> rawText ]

AggDetections ==
  { GiftCodeFrom(RawDashedA, 90), GiftCodeFrom(RawCompactA, 50),
    GiftCodeFrom(RawDashedC, 80), GiftCodeFrom(RawSpacedE, 85) }

AggCodeLists == SeqsUpTo(AggDetections, MaxAggCodes)

\* VideoAnalyzer.removeDuplicateGiftCodes: analyzeVideoSegment returns each
\* code once, the first detection of it
RemoveDuplicateGiftCodes(codes) == FilterFirstFrom(codes, 1)

\* a record as its run* function leaves it on success and on failure
CompletedProcess(type, call, res) ==
  RunCompleted(RunStart(NewProcess(type, call)), res)
FailedProcess(type, call) ==
  RunFailed(RunStart(NewProcess(type, call)), "error")

\* the audio and transcript records of the snapshots, one event each
AggAudio ==
  CompletedProcess("audio", NoCall,
                   [ laughterPeaks |-> << [startTime |-> 10] >> ])
AggTranscript ==
  CompletedProcess("transcript", NoCall,
                   [ laughSegments |-> << [startTime |-> 42] >> ])

\* the arguments of the targeted process for the audio event
AggTargetedCall ==
  LET laughTimestamp == ExtractLaughTimestamps(AggAudio, AggTranscript)[1]
  IN  [ timeRange |-> TargetWindow(laughTimestamp),
        laughTimestamp |-> laughTimestamp ]

\* allProcesses as waitForAllProcesses can leave it: the frame scan
\* completed or failed, audio and transcript completed, a targeted process
\* completed or still running.  runFullVideoAnalysis collects the codes of
\* every frame without removing duplicates; a targeted process has each
\* code once
AggSnapshots ==
  { << full, AggAudio, AggTranscript, targeted >> :
      full \in { CompletedProcess("full-video", NoCall, [ giftCodes |-> c ]) :
                   c \in AggCodeLists }
                 \cup { FailedProcess("full-video", NoCall) },
      targeted \in { CompletedProcess("targeted-video", AggTargetedCall,
                                      [ giftCodes |-> c,
                                        timeRange |-> AggTargetedCall.timeRange,
                                        laughTimestamp |->
                                          AggTargetedCall.laughTimestamp ]) :
                       c \in { RemoveDuplicateGiftCodes(l) : l \in AggCodeLists } }
                     \cup { RunStart(NewProcess("targeted-video",
                                                AggTargetedCall)) } }

Swap(seq, i, j) == [ seq EXCEPT ![i] = seq[j], ![j] = seq[i] ]

Reverse(seq) == [ k \in 1..Len(seq) |-> seq[Len(seq) + 1 - k] ]

ReverseCodes(p) ==
  IF HasField(p.result, "giftCodes")
  THEN [ p EXCEPT !.result.giftCodes = Reverse(@) ]
  ELSE p

\* the same records in another order: two processes exchanged, or the
\* detections of one process reversed
Reorderings(snapshot) ==
  { Swap(snapshot, i, j) : i, j \in 1..Len(snapshot) }
    \cup { [ snapshot EXCEPT ![i] = ReverseCodes(@) ] : i \in 1..Len(snapshot) }

\* variant: the key findings report how long processing took
AggregateResultsAtWithDurationFinding(procs, startTime, now) ==
  LET verdict == AggregateResults(procs)
  IN  [ verdict EXCEPT !.summary.keyFindings =
                          Append(@, << "Processing time", now - startTime >>) ]
        @@ [ processedAt |-> now, processingDuration |-> now - startTime ]

\* aggregateResults with the two fields it reads the clock for:
\* processedAt: new Date().toISOString(),
\* processingDuration: Date.now() - startTime
AggregateResultsAt(procs, startTime, now) ==
  AggregateResults(procs)
    @@ [ processedAt |-> now, processingDuration |-> now - startTime ]

AggInit ==
  /\ RunNotStarted
  /\ aggSnapshot \in AggSnapshots
  /\ aggNow = 0
  /\ aggFirst = NoResult
  /\ aggSecondSnapshot = << >>
  /\ aggSecond = NoResult
  /\ DispIdle
  /\ AdaptIdle
  /\ ExtIdle

\* a millisecond passes
AggTick ==
  /\ aggNow < MaxAggClock
  /\ aggNow' = aggNow + 1
  /\ UNCHANGED << aggSnapshot, aggFirst, aggSecondSnapshot, aggSecond >>
  /\ UNCHANGED << vars, dispVars, adaptVars, extVars >>

\* aggregateResults(allProcesses, videoId, startTime)
AggregateFirst ==
  /\ aggFirst = NoResult
  /\ aggFirst' = AggregateResultsAt(aggSnapshot, 0, aggNow)
  /\ UNCHANGED << aggSnapshot, aggNow, aggSecondSnapshot, aggSecond >>
  /\ UNCHANGED << vars, dispVars, adaptVars, extVars >>

\* aggregateResults is called again with the same arguments
AggregateAgain ==
  /\ aggFirst # NoResult
  /\ aggSecond = NoResult
  /\ aggSecondSnapshot' = aggSnapshot
  /\ aggSecond' = AggregateResultsAt(aggSnapshot, 0, aggNow)
  /\ UNCHANGED << aggSnapshot, aggNow, aggFirst >>
  /\ UNCHANGED << vars, dispVars, adaptVars, extVars >>

\* aggregateResults is called again with the records in another order
AggregateReordered ==
  /\ aggFirst # NoResult
  /\ aggSecond = NoResult
  /\ \E reordered \in Reorderings(aggSnapshot) \ {aggSnapshot} :
       /\ aggSecondSnapshot' = reordered
       /\ aggSecond' = AggregateResultsAt(reordered, 0, aggNow)
  /\ UNCHANGED << aggSnapshot, aggNow, aggFirst >>
  /\ UNCHANGED << vars, dispVars, adaptVars, extVars >>

AggNext ==
  \/ AggTick
  \/ AggregateFirst
  \/ AggregateAgain
  \/ AggregateReordered

AggSpec == AggInit /\ [][AggNext]_aggVars

\* ------------------------------------- dispatch, with ids and the clock

VideoId == "v"

\* `full-video-${videoId}-${Date.now()}` and its two siblings; the template
\* string is the tuple of its parts
BaseId(type, videoId, now) == << type, videoId, now >>

\* `targeted-${videoId}-${laughTimestamp.timestamp}-${Date.now()}`
TargetedId(videoId, laughTimestamp, now) ==
  << "targeted", videoId, laughTimestamp.timestamp, now >>

\* the order in which startParallelAnalysis creates the base records
BaseTypes == << "full-video", "audio", "transcript" >>

\* this.activeProcesses.set(process.id, process)
MapSet(map, key, value) ==
  [ k \in DOMAIN map \cup {key} |-> IF k = key THEN value ELSE map[k] ]

DispInit ==
  /\ RunNotStarted
  /\ AggIdle
  /\ AdaptIdle
  /\ ExtIdle
  /\ dpc = "createBase"
  /\ dNow = 0
  /\ dProcesses = << >>
  /\ dLaughTimestamps = << >>
  /\ activeProcesses = << >>

\* a millisecond passes
DispTick ==
  /\ dNow < MaxDispClock
  /\ dNow' = dNow + 1
  /\ UNCHANGED << dpc, dProcesses, dLaughTimestamps, activeProcesses >>
  /\ UNCHANGED << vars, aggVars, adaptVars, extVars >>

\* startParallelAnalysis: the next of the three object literals is
\* evaluated, reading the clock for its id
DispCreateBase ==
  /\ dpc = "createBase"
  /\ LET type == BaseTypes[Len(dProcesses) + 1]
     IN  dProcesses' = Append(dProcesses,
                              [ id |-> BaseId(type, VideoId, dNow),
                                type |-> type ])
  /\ dpc' = IF Len(dProcesses) + 1 = Len(BaseTypes) THEN "runBase"
            ELSE "createBase"
  /\ UNCHANGED << dNow, dLaughTimestamps, activeProcesses >>
  /\ UNCHANGED << vars, aggVars, adaptVars, extVars >>

RECURSIVE SetAll(_, _)
SetAll(map, procs) ==
  IF procs = << >> THEN map
  ELSE SetAll(MapSet(map, Head(procs).id, Head(procs)), Tail(procs))

\* the three run* functions are called; each stores its record in
\* activeProcesses and runs up to its adapter call
DispRunBase ==
  /\ dpc = "runBase"
  /\ activeProcesses' = SetAll(activeProcesses, dProcesses)
  /\ dpc' = "awaitAnchors"
  /\ UNCHANGED << dNow, dProcesses, dLaughTimestamps >>
  /\ UNCHANGED << vars, aggVars, adaptVars, extVars >>

\* audio and transcript completed; waitForLaughTimestamps returns the
\* events of both
DispAnchors ==
  /\ dpc = "awaitAnchors"
  /\ \E peaks \in EventLists, segments \in EventLists :
       dLaughTimestamps' =
         ExtractLaughTimestamps(
           CompletedProcess("audio", NoCall, [ laughterPeaks |-> peaks ]),
           CompletedProcess("transcript", NoCall, [ laughSegments |-> segments ]))
  /\ dpc' = "targetedLoop"
  /\ UNCHANGED << dNow, dProcesses, activeProcesses >>
  /\ UNCHANGED << vars, aggVars, adaptVars, extVars >>

\* startTargetedAnalysis, one iteration of the loop: the record is created,
\* reading the clock for its id, and runTargetedVideoAnalysis stores it in
\* activeProcesses
DispTargeted ==
  /\ dpc = "targetedLoop"
  /\ dLaughTimestamps # << >>
  /\ LET targetedProcess ==
           [ id |-> TargetedId(VideoId, Head(dLaughTimestamps), dNow),
             type |-> "targeted-video" ]
     IN  /\ dProcesses' = Append(dProcesses, targetedProcess)
         /\ activeProcesses' =
              MapSet(activeProcesses, targetedProcess.id, targetedProcess)
  /\ dLaughTimestamps' = Tail(dLaughTimestamps)
  /\ UNCHANGED << dpc, dNow >>
  /\ UNCHANGED << vars, aggVars, adaptVars, extVars >>

\* startTargetedAnalysis returns
DispReturn ==
  /\ dpc = "targetedLoop"
  /\ dLaughTimestamps = << >>
  /\ dpc' = "dispatched"
  /\ UNCHANGED << dNow, dProcesses, dLaughTimestamps, activeProcesses >>
  /\ UNCHANGED << vars, aggVars, adaptVars, extVars >>

DispNext ==
  \/ DispTick
  \/ DispCreateBase
  \/ DispRunBase
  \/ DispAnchors
  \/ DispTargeted
  \/ DispReturn

DispSpec == DispInit /\ [][DispNext]_dispVars

\* ---------------------------------------------- the detector adapters

\* frameAnalysis lists analyzeFrames returns: no frame, one frame
FrameLists == { << >>, << [timestamp |-> 0] >> }

EmptyVideoResult == [ giftCodes |-> << >>, frameAnalysis |-> << >> ]
EmptyAudioResult ==
  [ laughterPeaks |-> << >>, suspiciousAudioSegments |-> << >> ]
EmptyTranscriptResult ==
  [ segments |-> << >>, keywords |-> << >>, suspiciousSegments |-> << >> ]

AdaptInit ==
  /\ RunNotStarted
  /\ AggIdle
  /\ DispIdle
  /\ ExtIdle
  /\ analyzeVideoCall = AdapterCall("downloadVideo", FALSE, NoResult)
  /\ analyzeAudioCall = AdapterCall("extractAudio", FALSE, NoResult)
  /\ analyzeTranscriptCall = AdapterCall("getVideoTranscript", FALSE, NoResult)

\* analyzeVideo: downloadVideo resolves, analyzeFrames is called
AnalyzeVideoDownloaded ==
  /\ analyzeVideoCall.pc = "downloadVideo"
  /\ analyzeVideoCall' = [ analyzeVideoCall EXCEPT !.pc = "analyzeFrames" ]
  /\ UNCHANGED << analyzeAudioCall, analyzeTranscriptCall >>
  /\ UNCHANGED << vars, aggVars, dispVars, extVars >>

\* analyzeVideo: ffmpeg fails, downloadVideo rejects; the catch block logs
\* the error and throws it again
AnalyzeVideoDownloadFails ==
  /\ analyzeVideoCall.pc = "downloadVideo"
  /\ analyzeVideoCall' = AdapterCall("threw", TRUE, NoResult)
  /\ UNCHANGED << analyzeAudioCall, analyzeTranscriptCall >>
  /\ UNCHANGED << vars, aggVars, dispVars, extVars >>

\* analyzeVideo: analyzeFrames returns, with [] from its own catch block
\* when frame extraction failed; extractGiftCodesFromFrames returns the
\* codes of the frames; the result is returned
AnalyzeVideoFramesAnalyzed ==
  /\ analyzeVideoCall.pc = "analyzeFrames"
  /\ \/ analyzeVideoCall' = AdapterCall("returned", TRUE, EmptyVideoResult)
     \/ \E frames \in FrameLists :
          \E codes \in (IF frames = << >> THEN { << >> } ELSE CodeLists) :
            analyzeVideoCall' =
              AdapterCall("returned", FALSE,
                          [ giftCodes |-> codes, frameAnalysis |-> frames ])
  /\ UNCHANGED << analyzeAudioCall, analyzeTranscriptCall >>
  /\ UNCHANGED << vars, aggVars, dispVars, extVars >>

\* analyzeAudio: extractAudio resolves, the two detections are started
AnalyzeAudioExtracted ==
  /\ analyzeAudioCall.pc = "extractAudio"
  /\ analyzeAudioCall' = [ analyzeAudioCall EXCEPT !.pc = "detect" ]
  /\ UNCHANGED << analyzeVideoCall, analyzeTranscriptCall >>
  /\ UNCHANGED << vars, aggVars, dispVars, extVars >>

\* analyzeAudio: ffmpeg fails, extractAudio rejects; the catch block
\* returns the empty result
AnalyzeAudioExtractFails ==
  /\ analyzeAudioCall.pc = "extractAudio"
  /\ analyzeAudioCall' = AdapterCall("returned", TRUE, EmptyAudioResult)
  /\ UNCHANGED << analyzeVideoCall, analyzeTranscriptCall >>
  /\ UNCHANGED << vars, aggVars, dispVars, extVars >>

\* analyzeAudio: detectLaughterPeaks and analyzeSuspiciousSegments return,
\* each with [] from its own catch block when it failed
AnalyzeAudioDetected ==
  /\ analyzeAudioCall.pc = "detect"
  /\ \/ analyzeAudioCall' = AdapterCall("returned", TRUE, EmptyAudioResult)
     \/ \E peaks \in EventLists :
          analyzeAudioCall' =
            AdapterCall("returned", FALSE,
                        [ laughterPeaks |-> peaks,
                          suspiciousAudioSegments |-> << >> ])
  /\ UNCHANGED << analyzeVideoCall, analyzeTranscriptCall >>
  /\ UNCHANGED << vars, aggVars, dispVars, extVars >>

\* analyzeTranscript: getVideoTranscript returns null, from its own catch
\* block when the captions API failed or because the video has no captions;
\* the empty result is returned
AnalyzeTranscriptNoTranscript ==
  /\ analyzeTranscriptCall.pc = "getVideoTranscript"
  /\ \E failed \in BOOLEAN :
       analyzeTranscriptCall' =
         AdapterCall("returned", failed, EmptyTranscriptResult)
  /\ UNCHANGED << analyzeVideoCall, analyzeAudioCall >>
  /\ UNCHANGED << vars, aggVars, dispVars, extVars >>

\* analyzeTranscript: getVideoTranscript returns the captions; they are
\* parsed into segments and the result is returned
AnalyzeTranscriptParsed ==
  /\ analyzeTranscriptCall.pc = "getVideoTranscript"
  /\ \E segments \in EventLists :
       analyzeTranscriptCall' =
         AdapterCall("returned", FALSE,
                     [ segments |-> segments, keywords |-> << >>,
                       suspiciousSegments |-> << >> ])
  /\ UNCHANGED << analyzeVideoCall, analyzeAudioCall >>
  /\ UNCHANGED << vars, aggVars, dispVars, extVars >>

AdaptNext ==
  \/ AnalyzeVideoDownloaded
  \/ AnalyzeVideoDownloadFails
  \/ AnalyzeVideoFramesAnalyzed
  \/ AnalyzeAudioExtracted
  \/ AnalyzeAudioExtractFails
  \/ AnalyzeAudioDetected
  \/ AnalyzeTranscriptNoTranscript
  \/ AnalyzeTranscriptParsed

AdaptSpec == AdaptInit /\ [][AdaptNext]_adaptVars

\* ------------------------------------ the thumbnail pre-filter, with OCR
\* getSupportedAmounts(): minDollarAmount 500, maxDollarAmount 1000,
\* dollarAmountStep 50
SupportedAmounts == { 500 + 50 * i : i \in 0..10 }

\* isSupportedAmount(amount)
IsSupportedAmount(amount) == amount \in SupportedAmounts

\* a piece of text that the money patterns match: "$550" is
\* MoneyMatch(550, FALSE), "$550.00" is MoneyMatch(550, TRUE)
MoneyMatch(whole, cents) == [ whole |-> whole, cents |-> cents ]

MoneyMatches ==
  { MoneyMatch(550, FALSE), MoneyMatch(550, TRUE), MoneyMatch(300, FALSE) }

\* detections[0].score of the provider
VisionScores == { 0, 50, 90 }

\* what client.textDetection resolves with: no annotation at all, or a
\* first annotation with a description, the money matches in it and a score
NoAnnotations == [ annotated |-> FALSE ]

Annotations(description, matches, score) ==
  [ annotated |-> TRUE, description |-> description,
    matches |-> matches, score |-> score ]

VisionResponses ==
  {NoAnnotations}
    \cup { Annotations("", << >>, score) : score \in VisionScores }
    \cup { Annotations("text", matches, score) :
             matches \in SeqsUpTo(MoneyMatches, MaxMatches),
             score \in VisionScores }

\* OCRService.extractMonetaryValues reads the amount of a match:
\* match[1].replace(/,/g, '').replace(/\./g, '') and parseInt, so that
\* "550.00" is read as 55000
OcrAmount(match) ==
  IF match.cents THEN match.whole * 100 ELSE match.whole

\* ThumbnailAnalyzer.findMonetaryAmounts reads the amount of a match:
\* match[1].replace(/,/g, '') and parseInt, so that "550.00" is read as 550
ThumbnailAmount(match) == match.whole

MonetaryDetection(amount, confidence) ==
  [ amount |-> amount, confidence |-> confidence ]

\* OCRService.extractMonetaryValues: a detection of confidence 0.9 for
\* every match whose amount is supported
RECURSIVE OcrExtractMonetaryValues(_)
OcrExtractMonetaryValues(matches) ==
  IF matches = << >> THEN << >>
  ELSE (IF IsSupportedAmount(OcrAmount(Head(matches)))
        THEN << MonetaryDetection(OcrAmount(Head(matches)), 90) >>
        ELSE << >>)
       \o OcrExtractMonetaryValues(Tail(matches))

OCRResult(text, matches, confidence, monetaryValues) ==
  [ text |-> text, matches |-> matches, confidence |-> confidence,
    monetaryValues |-> monetaryValues ]

\* the result OCRService.performOCR returns when there is no text and
\* when the provider failed
EmptyOCRResult == OCRResult("", << >>, 0, << >>)

\* OCRService.performOCR after client.textDetection resolved
OcrPerformOCR(response) ==
  IF ~ response.annotated THEN EmptyOCRResult
  ELSE OCRResult(response.description, response.matches, response.score,
                 OcrExtractMonetaryValues(response.matches))

\* ThumbnailAnalyzer.performOCR after ocrService.performOCR returned:
\* if (!ocrResult.text) return []; return [ocrResult]
ThumbnailPerformOCR(ocr) ==
  IF ocr.text = "" THEN << >> ELSE << ocr >>

\* ThumbnailAnalyzer.findMonetaryAmounts: the amounts from 100 to 10000,
\* each once, in the order of the first match
RECURSIVE FindMonetaryAmounts(_, _)
FindMonetaryAmounts(matches, seen) ==
  IF matches = << >> THEN << >>
  ELSE LET amount == ThumbnailAmount(Head(matches))
       IN  IF amount >= 100 /\ amount <= 10000 /\ amount \notin seen
           THEN << amount >>
                  \o FindMonetaryAmounts(Tail(matches), seen \cup {amount})
           ELSE FindMonetaryAmounts(Tail(matches), seen)

RECURSIVE SupportedDetections(_, _)
SupportedDetections(amounts, confidence) ==
  IF amounts = << >> THEN << >>
  ELSE (IF IsSupportedAmount(Head(amounts))
        THEN << MonetaryDetection(Head(amounts), confidence) >>
        ELSE << >>)
       \o SupportedDetections(Tail(amounts), confidence)

\* ThumbnailAnalyzer.extractMonetaryValues: the values the OCR service
\* extracted if there are any, the manual extraction otherwise
RECURSIVE ThumbnailExtractMonetaryValues(_)
ThumbnailExtractMonetaryValues(ocrResults) ==
  IF ocrResults = << >> THEN << >>
  ELSE LET ocr == Head(ocrResults)
       IN  (IF ocr.monetaryValues # << >> THEN ocr.monetaryValues
            ELSE SupportedDetections(FindMonetaryAmounts(ocr.matches, {}),
                                     ocr.confidence))
           \o ThumbnailExtractMonetaryValues(Tail(ocrResults))

\* ThumbnailAnalyzer.analyzeThumbnail after the image was downloaded and
\* ocrService.performOCR returned ocr
AnalyzeThumbnail(ocr) ==
  LET monetaryDetections ==
        ThumbnailExtractMonetaryValues(ThumbnailPerformOCR(ocr))
  IN  [ monetaryDetections |-> monetaryDetections,
        hasMoneyThumbnail |-> Len(monetaryDetections) > 0 ]

GateInit ==
  /\ RunNotStarted
  /\ AggIdle
  /\ DispIdle
  /\ AdaptIdle
  /\ RunsIdle
  /\ StoreIdle
  /\ MsgIdle
  /\ ScanIdle
  /\ AudioIdle
  /\ FrameIdle
  /\ CleanIdle
  /\ SigIdle
  /\ GiftIdle
  /\ gpc = "downloadImage"
  /\ visionFailed = FALSE
  /\ ocrResult = NoResult
  /\ gateAnalysis = NoResult
  /\ gateResult = NoResult

\* downloadAndPreprocessImage resolves; performOCR calls the OCR service,
\* which calls client.textDetection
GateImageDownloaded ==
  /\ gpc = "downloadImage"
  /\ gpc' = "textDetection"
  /\ UNCHANGED << visionFailed, ocrResult, gateAnalysis, gateResult >>
  /\ UNCHANGED << vars, aggVars, dispVars, adaptVars, giftVars, sigVars, cleanVars, frameVars, audioVars, scanVars, msgVars, storeVars, runsVars >>

\* downloadAndPreprocessImage rejects: analyzeThumbnail logs and rethrows,
\* and the catch block of processVideo is entered
GateImageDownloadFails ==
  /\ gpc = "downloadImage"
  /\ gpc' = "threw"
  /\ UNCHANGED << visionFailed, ocrResult, gateAnalysis, gateResult >>
  /\ UNCHANGED << vars, aggVars, dispVars, adaptVars, giftVars, sigVars, cleanVars, frameVars, audioVars, scanVars, msgVars, storeVars, runsVars >>

\* client.textDetection resolves; OCRService.performOCR returns
GateTextDetectionResolves ==
  /\ gpc = "textDetection"
  /\ \E response \in VisionResponses :
       ocrResult' = OcrPerformOCR(response)
  /\ gpc' = "ocrReturned"
  /\ UNCHANGED << visionFailed, gateAnalysis, gateResult >>
  /\ UNCHANGED << vars, aggVars, dispVars, adaptVars, giftVars, sigVars, cleanVars, frameVars, audioVars, scanVars, msgVars, storeVars, runsVars >>

\* client.textDetection rejects; the catch block of OCRService.performOCR
\* logs and returns the empty result
GateTextDetectionRejects ==
  /\ gpc = "textDetection"
  /\ visionFailed' = TRUE
  /\ ocrResult' = EmptyOCRResult
  /\ gpc' = "ocrReturned"
  /\ UNCHANGED << gateAnalysis, gateResult >>
  /\ UNCHANGED << vars, aggVars, dispVars, adaptVars, giftVars, sigVars, cleanVars, frameVars, audioVars, scanVars, msgVars, storeVars, runsVars >>

\* the rest of ThumbnailAnalyzer.performOCR and of analyzeThumbnail.  The
\* catch block of ThumbnailAnalyzer.performOCR, with the mock OCR, needs
\* ocrService.performOCR to reject, which it never does.
GateAnalyzeThumbnailReturns ==
  /\ gpc = "ocrReturned"
  /\ gateAnalysis' = AnalyzeThumbnail(ocrResult)
  /\ gpc' = "analyzed"
  /\ UNCHANGED << visionFailed, ocrResult, gateResult >>
  /\ UNCHANGED << vars, aggVars, dispVars, adaptVars, giftVars, sigVars, cleanVars, frameVars, audioVars, scanVars, msgVars, storeVars, runsVars >>

\* processVideo after analyzeThumbnail: the gate
GateDecides ==
  /\ gpc = "analyzed"
  /\ IF SkipDetailedAnalysis(gateAnalysis)
     THEN /\ gateResult' = CreateMinimalResult(gateAnalysis)
          /\ gpc' = "skipped"
     ELSE /\ gateResult' = gateResult
          /\ gpc' = "proceeded"
  /\ UNCHANGED << visionFailed, ocrResult, gateAnalysis >>
  /\ UNCHANGED << vars, aggVars, dispVars, adaptVars, giftVars, sigVars, cleanVars, frameVars, audioVars, scanVars, msgVars, storeVars, runsVars >>

GateNext ==
  \/ GateImageDownloaded
  \/ GateImageDownloadFails
  \/ GateTextDetectionResolves
  \/ GateTextDetectionRejects
  \/ GateAnalyzeThumbnailReturns
  \/ GateDecides

GateSpec == GateInit /\ [][GateNext]_gateVars

\* --------------------------------------- gift code detection on its own
\* three groups of 4, 6 and 4 characters: one without any of the
\* excluded characters, the same in lower case, one made of excluded
\* characters, one with a character four times in a row
GroupsK ==
  << << "K","7","M","P" >>, << "Q","2","X","9","R","T" >>,
     << "W","4","Z","H" >> >>
GroupsLowerK ==
  << << "k","7","m","p" >>, << "q","2","x","9","r","t" >>,
     << "w","4","z","h" >> >>
GroupsO ==
  << << "O","0","I","1" >>, << "1","0","O","I","0","O" >>,
     << "1","I","O","0" >> >>
GroupsA ==
  << << "A","A","A","A" >>, << "1","1","2","2","3","3" >>,
     << "B","B","B","B" >> >>

GroupsOfCodes == { GroupsK, GroupsLowerK, GroupsO, GroupsA }

\* what stands between the groups in a text
SeparatorPairs ==
  { << << "-" >>, << "-" >> >>, << << " " >>, << " " >> >>,
    << << >>, << >> >>, << << "_" >>, << "_" >> >>,
    << << "-" >>, << "_" >> >>, << << "\t" >>, << " " >> >>,
    << << "-" >>, << " " >> >> }

\* the groups written with the separators between them
Written(groups, seps) ==
  groups[1] \o seps[1] \o groups[2] \o seps[2] \o groups[3]

Dashes == << << "-" >>, << "-" >> >>
NoSeparators == << << >>, << >> >>

\* texts of OCR results: a code in every writing, a run of fifteen
\* characters, two codes in one text, and the text analyzeFrames gives
\* the OCR results of a frame
GiftTexts ==
  { Written(groups, seps) : groups \in GroupsOfCodes, seps \in SeparatorPairs }
    \cup { Written(GroupsK, NoSeparators) \o << "X" >>,
           Written(GroupsK, Dashes) \o << " " >> \o Written(GroupsA, Dashes),
           << "$", "5", "5", "0" >> }

\* ocrResult.confidence, in hundredths
OcrConfidences == { 0, 50, 100 }

GiftOcrResult(text, confidence) == [ text |-> text, confidence |-> confidence ]

GiftOcrResults ==
  { GiftOcrResult(text, confidence) :
      text \in GiftTexts, confidence \in OcrConfidences }

\* a frame of frameAnalysis
Frame(ocrResults) == [ ocrResults |-> ocrResults ]

\* the frames of the longer lists: one code read in three writings, a
\* second and a third code, one frame with two OCR results, one without
\* a code
ListedFrames ==
  { Frame(<< GiftOcrResult(Written(GroupsK, Dashes), 50) >>),
    Frame(<< GiftOcrResult(Written(GroupsK, NoSeparators), 100) >>),
    Frame(<< GiftOcrResult(Written(GroupsLowerK, << << "_" >>, << "_" >> >>), 0) >>),
    Frame(<< GiftOcrResult(Written(GroupsO, << << " " >>, << " " >> >>), 50) >>),
    Frame(<< GiftOcrResult(Written(GroupsA, Dashes), 100),
             GiftOcrResult(Written(GroupsA, NoSeparators), 50) >>),
    Frame(<< GiftOcrResult(<< "$", "5", "5", "0" >>, 100) >>) }

GiftFrameLists ==
  { << Frame(<< ocr >>) >> : ocr \in GiftOcrResults }
    \cup SeqsUpTo(ListedFrames, MaxFrames)

GiftInit ==
  /\ RunNotStarted
  /\ AggIdle
  /\ DispIdle
  /\ AdaptIdle
  /\ RunsIdle
  /\ StoreIdle
  /\ MsgIdle
  /\ ScanIdle
  /\ AudioIdle
  /\ FrameIdle
  /\ CleanIdle
  /\ SigIdle
  /\ GateIdle
  /\ giftFrames \in GiftFrameLists
  /\ giftPushed = << >>
  /\ giftFrameCodes = << >>
  /\ giftUnique = NoResult
  /\ giftReapplied = NoResult
  /\ giftNormalized = NoResult

\* extractGiftCodesFromFrames, one turn of the loop: detectGiftCodes on
\* the OCR results of the next frame
GiftDetectFrame ==
  /\ giftUnique = NoResult
  /\ Len(giftFrameCodes) < Len(giftFrames)
  /\ LET frame == giftFrames[Len(giftFrameCodes) + 1]
     IN  /\ giftPushed' = Append(giftPushed, AllDetections(frame.ocrResults))
         /\ giftFrameCodes' =
              Append(giftFrameCodes, DetectGiftCodes(frame.ocrResults))
  /\ UNCHANGED << giftFrames, giftUnique, giftReapplied, giftNormalized >>
  /\ UNCHANGED << vars, aggVars, dispVars, adaptVars, gateVars, sigVars, cleanVars, frameVars, audioVars, scanVars, msgVars, storeVars, runsVars >>

\* allGiftCodes.push(...frameCodes) of every turn
RECURSIVE Flatten(_)
Flatten(lists) ==
  IF lists = << >> THEN << >> ELSE Head(lists) \o Flatten(Tail(lists))

\* extractGiftCodesFromFrames after the loop: removeDuplicateGiftCodes
GiftExtractReturns ==
  /\ giftUnique = NoResult
  /\ Len(giftFrameCodes) = Len(giftFrames)
  /\ giftUnique' = [ codes |-> RemoveDuplicateGiftCodes(Flatten(giftFrameCodes)) ]
  /\ UNCHANGED << giftFrames, giftPushed, giftFrameCodes, giftReapplied,
                  giftNormalized >>
  /\ UNCHANGED << vars, aggVars, dispVars, adaptVars, gateVars, sigVars, cleanVars, frameVars, audioVars, scanVars, msgVars, storeVars, runsVars >>

\* removeDuplicateCodes and removeDuplicateGiftCodes are applied to what
\* they returned
GiftRemoveDuplicatesAgain ==
  /\ giftUnique # NoResult
  /\ giftReapplied = NoResult
  /\ giftReapplied' =
       [ frameCodes |-> [ i \in 1..Len(giftFrameCodes) |->
                            RemoveDuplicateCodes(giftFrameCodes[i]) ],
         codes |-> RemoveDuplicateGiftCodes(giftUnique.codes) ]
  /\ UNCHANGED << giftFrames, giftPushed, giftFrameCodes, giftUnique,
                  giftNormalized >>
  /\ UNCHANGED << vars, aggVars, dispVars, adaptVars, gateVars, sigVars, cleanVars, frameVars, audioVars, scanVars, msgVars, storeVars, runsVars >>

\* the strings normalizeGiftCode is given: the matches of the frames, and
\* the texts of the frames that isValidAmazonGiftCode accepts as they are
GiftCandidates ==
  LET texts == Flatten([ i \in 1..Len(giftFrames) |->
                           [ j \in 1..Len(giftFrames[i].ocrResults) |->
                               ToUpperCase(giftFrames[i].ocrResults[j].text) ] ])
      pushed == Flatten(giftPushed)
  IN  [ i \in 1..Len(pushed) |-> pushed[i].rawText ]
        \o SelectSeq(texts, IsValidAmazonGiftCode)

\* normalizeGiftCode is applied to every candidate, and to what it returned
GiftNormalizeTwice ==
  /\ giftUnique # NoResult
  /\ giftNormalized = NoResult
  /\ giftNormalized' =
       [ rows |->
           [ i \in 1..Len(GiftCandidates) |->
               [ candidate |-> GiftCandidates[i],
                 once |-> NormalizeGiftCode(GiftCandidates[i]),
                 twice |->
                   NormalizeGiftCode(NormalizeGiftCode(GiftCandidates[i])) ] ] ]
  /\ UNCHANGED << giftFrames, giftPushed, giftFrameCodes, giftUnique,
                  giftReapplied >>
  /\ UNCHANGED << vars, aggVars, dispVars, adaptVars, gateVars, sigVars, cleanVars, frameVars, audioVars, scanVars, msgVars, storeVars, runsVars >>

GiftNext ==
  \/ GiftDetectFrame
  \/ GiftExtractReturns
  \/ GiftRemoveDuplicatesAgain
  \/ GiftNormalizeTwice

GiftSpec == GiftInit /\ [][GiftNext]_giftVars

\* ------------------------------------------- the webhook route, signature
\* A header or an environment variable is absent or has a string value.
Absent == [ present |-> FALSE ]
Present(value) == [ present |-> TRUE, value |-> value ]

\* !x of a string that may be undefined
IsFalsy(x) == ~ x.present \/ x.value = << >>

HexDigits ==
  Digits \cup { "a","b","c","d","e","f" } \cup { "A","B","C","D","E","F" }

\* bodies and secrets, and the hex digest of the HMAC-SHA1 of each body
\* under each secret, shortened to two bytes
SigBodies == { << "x" >>, << "y" >> }
SigSecrets == { << "k" >>, << "q" >> }

HmacSha1Hex(secret, body) ==
  IF secret = << "k" >>
  THEN (IF body = << "x" >> THEN << "a","1","b","2" >>
                            ELSE << "c","3","d","4" >>)
  ELSE (IF body = << "x" >> THEN << "e","5","f","6" >>
                            ELSE << "0","7","a","8" >>)

Sha1Prefix == << "s","h","a","1","=" >>

\* signature.replace('sha1=', ''): the first occurrence is removed
ReplaceFirst(str, sub) ==
  IF Includes(str, sub)
  THEN LET i == CHOOSE k \in 1..(Len(str) - Len(sub) + 1) :
                  /\ SubSeq(str, k, k + Len(sub) - 1) = sub
                  /\ \A j \in 1..(k - 1) : SubSeq(str, j, j + Len(sub) - 1) # sub
       IN  SubSeq(str, 1, i - 1) \o SubSeq(str, i + Len(sub), Len(str))
  ELSE str

\* String.prototype.toLowerCase on a hex digit
ToLowerHex(ch) ==
  IF \E i \in 1..6 : Letters[i] = ch
  THEN LowerLetters[CHOOSE i \in 1..6 : Letters[i] = ch]
  ELSE ch

\* Buffer.from(str, 'hex'): one byte for every two hex digits, up to the
\* first pair that is not two hex digits; a byte is written as its two
\* digits in lower case
RECURSIVE BufferFromHex(_)
BufferFromHex(str) ==
  IF Len(str) >= 2 /\ str[1] \in HexDigits /\ str[2] \in HexDigits
  THEN << << ToLowerHex(str[1]), ToLowerHex(str[2]) >> >>
         \o BufferFromHex(SubSeq(str, 3, Len(str)))
  ELSE << >>

\* PubSubService.verifySignature; crypto.timingSafeEqual throws when the
\* two buffers differ in length, and the catch block returns false
VerifySignature(body, signature, secret) ==
  IF IsFalsy(secret) \/ IsFalsy(signature) THEN TRUE
  ELSE LET expected == BufferFromHex(HmacSha1Hex(secret.value, body))
           provided ==
             BufferFromHex(ReplaceFirst(signature.value, Sha1Prefix))
       IN  IF Len(expected) # Len(provided) THEN FALSE
           ELSE expected = provided

\* the x-hub-signature headers of a request for a body: none, empty, the
\* digest of the body under each secret with and without the prefix, in
\* upper case, followed by characters that are not hex digits, cut short,
\* and the digest of the other body
SignaturesFor(body) ==
  { Absent, Present(<< >>) }
    \cup UNION { { Present(Sha1Prefix \o HmacSha1Hex(secret, body)),
                   Present(HmacSha1Hex(secret, body)),
                   Present(Sha1Prefix \o ToUpperCase(HmacSha1Hex(secret, body))),
                   Present(Sha1Prefix \o HmacSha1Hex(secret, body)
                             \o << "z", "z" >>),
                   Present(Sha1Prefix
                             \o SubSeq(HmacSha1Hex(secret, body), 1, 2)) } :
                 secret \in SigSecrets }
    \cup { Present(Sha1Prefix \o HmacSha1Hex(<< "k" >>, other)) :
             other \in SigBodies \ {body} }

SigInit ==
  /\ RunNotStarted
  /\ AggIdle
  /\ DispIdle
  /\ AdaptIdle
  /\ RunsIdle
  /\ StoreIdle
  /\ MsgIdle
  /\ ScanIdle
  /\ AudioIdle
  /\ FrameIdle
  /\ CleanIdle
  /\ GateIdle
  /\ GiftIdle
  /\ sigBody \in SigBodies
  /\ sigSignature \in SignaturesFor(sigBody)
  /\ sigSecret \in { Absent, Present(<< >>) } \cup { Present(k) : k \in SigSecrets }
  /\ sigValid = "none"
  /\ sigResponse = "none"

\* the route for POST /youtube calls verifySignature
SigVerify ==
  /\ sigValid = "none"
  /\ sigValid' =
       (IF VerifySignature(sigBody, sigSignature, sigSecret)
        THEN "valid" ELSE "invalid")
  /\ UNCHANGED << sigBody, sigSignature, sigSecret, sigResponse >>
  /\ UNCHANGED << vars, aggVars, dispVars, adaptVars, gateVars, giftVars, cleanVars, frameVars, audioVars, scanVars, msgVars, storeVars, runsVars >>

\* the route answers 401, or goes on to parse the notification
SigRespond ==
  /\ sigValid # "none"
  /\ sigResponse = "none"
  /\ sigResponse' = (IF sigValid = "invalid" THEN "401" ELSE "parseNotification")
  /\ UNCHANGED << sigBody, sigSignature, sigSecret, sigValid >>
  /\ UNCHANGED << vars, aggVars, dispVars, adaptVars, gateVars, giftVars, cleanVars, frameVars, audioVars, scanVars, msgVars, storeVars, runsVars >>

SigNext ==
  \/ SigVerify
  \/ SigRespond

SigSpec == SigInit /\ [][SigNext]_sigVars

\* ------------------------------------------------------------ cleanup
\* Ages are in days before the call; a document is older than the cutoff
\* when its age is greater than olderThanDays.

\* documents of video_analysis_results: summary.recommendedAction and
\* the age of processedAt
ResultDocs ==
  { [ action |-> action, age |-> age ] :
      action \in {"investigate", "monitor", "ignore"}, age \in {10, 40} }

\* documents of processing_jobs: status and the age of completedAt
JobDocs ==
  { [ status |-> "completed", age |-> 40 ],
    [ status |-> "completed", age |-> 10 ],
    [ status |-> "failed", age |-> 40 ] }

\* documents of file_storage: the age of createdAt
FileDocs == { [ age |-> 40 ], [ age |-> 10 ] }

\* the arguments of DatabaseService.cleanup: a number, or an object whose
\* two fields are optional; 0 stands for a field that is not given
CleanupOptions ==
  { [ isNumber |-> TRUE, olderThanDays |-> 7 ] }
    \cup { [ isNumber |-> FALSE, olderThanDays |-> days,
             keepInvestigateResults |-> keep ] :
             days \in {0, 7, 30}, keep \in {"absent", "true", "false"} }

\* DatabaseService.cleanup: olderThanDays as it is handed on
OlderThanDays(options) ==
  IF options.isNumber THEN options.olderThanDays
  ELSE IF options.olderThanDays # 0 THEN options.olderThanDays ELSE 30

\* .where(field, '<', cutoffDate)
OlderThan(docs, days) == { doc \in docs : doc.age > days }

CleanInit ==
  /\ RunNotStarted
  /\ AggIdle
  /\ DispIdle
  /\ AdaptIdle
  /\ RunsIdle
  /\ StoreIdle
  /\ MsgIdle
  /\ ScanIdle
  /\ AudioIdle
  /\ FrameIdle
  /\ GateIdle
  /\ GiftIdle
  /\ SigIdle
  /\ clpc = "start"
  /\ clOptions \in CleanupOptions
  /\ clOlderThanDays = 0
  /\ \E results \in SUBSET ResultDocs :
       /\ Cardinality(results) <= MaxStored
       /\ clStore = [ results |-> results, jobs |-> JobDocs, files |-> FileDocs ]
  /\ clSnapshot = {}

\* DatabaseService.cleanup up to the query for old results
CleanupCalled ==
  /\ clpc = "start"
  /\ clOlderThanDays' = OlderThanDays(clOptions)
  /\ clpc' = "getResults"
  /\ UNCHANGED << clOptions, clStore, clSnapshot >>
  /\ UNCHANGED << vars, aggVars, dispVars, adaptVars, gateVars, giftVars, sigVars, frameVars, audioVars, scanVars, msgVars, storeVars, runsVars >>

\* oldResultsQuery.get() resolves; the batch is committed if it is not
\* empty, the query for old jobs is made otherwise
CleanupResultsQueried ==
  /\ clpc = "getResults"
  /\ clSnapshot' = OlderThan(clStore.results, clOlderThanDays)
  /\ clpc' = (IF clSnapshot' # {} THEN "commitResults" ELSE "getJobs")
  /\ UNCHANGED << clOptions, clOlderThanDays, clStore >>
  /\ UNCHANGED << vars, aggVars, dispVars, adaptVars, gateVars, giftVars, sigVars, frameVars, audioVars, scanVars, msgVars, storeVars, runsVars >>

\* batch1.commit() resolves
CleanupResultsDeleted ==
  /\ clpc = "commitResults"
  /\ clStore' = [ clStore EXCEPT !.results = @ \ clSnapshot ]
  /\ clpc' = "getJobs"
  /\ UNCHANGED << clOptions, clOlderThanDays, clSnapshot >>
  /\ UNCHANGED << vars, aggVars, dispVars, adaptVars, gateVars, giftVars, sigVars, frameVars, audioVars, scanVars, msgVars, storeVars, runsVars >>

\* oldJobsQuery.get() resolves
CleanupJobsQueried ==
  /\ clpc = "getJobs"
  /\ clSnapshot' =
       OlderThan({ job \in clStore.jobs : job.status = "completed" },
                 clOlderThanDays)
  /\ clpc' = (IF clSnapshot' # {} THEN "commitJobs" ELSE "getFiles")
  /\ UNCHANGED << clOptions, clOlderThanDays, clStore >>
  /\ UNCHANGED << vars, aggVars, dispVars, adaptVars, gateVars, giftVars, sigVars, frameVars, audioVars, scanVars, msgVars, storeVars, runsVars >>

\* batch2.commit() resolves
CleanupJobsDeleted ==
  /\ clpc = "commitJobs"
  /\ clStore' = [ clStore EXCEPT !.jobs = @ \ clSnapshot ]
  /\ clpc' = "getFiles"
  /\ UNCHANGED << clOptions, clOlderThanDays, clSnapshot >>
  /\ UNCHANGED << vars, aggVars, dispVars, adaptVars, gateVars, giftVars, sigVars, frameVars, audioVars, scanVars, msgVars, storeVars, runsVars >>

\* oldFilesQuery.get() resolves; with nothing to delete both cleanups
\* return
CleanupFilesQueried ==
  /\ clpc = "getFiles"
  /\ clSnapshot' = OlderThan(clStore.files, clOlderThanDays)
  /\ clpc' = (IF clSnapshot' # {} THEN "commitFiles" ELSE "returned")
  /\ UNCHANGED << clOptions, clOlderThanDays, clStore >>
  /\ UNCHANGED << vars, aggVars, dispVars, adaptVars, gateVars, giftVars, sigVars, frameVars, audioVars, scanVars, msgVars, storeVars, runsVars >>

\* batch3.commit() resolves; FirestoreService.cleanup returns, and
\* DatabaseService.cleanup returns its counts
CleanupFilesDeleted ==
  /\ clpc = "commitFiles"
  /\ clStore' = [ clStore EXCEPT !.files = @ \ clSnapshot ]
  /\ clpc' = "returned"
  /\ UNCHANGED << clOptions, clOlderThanDays, clSnapshot >>
  /\ UNCHANGED << vars, aggVars, dispVars, adaptVars, gateVars, giftVars, sigVars, frameVars, audioVars, scanVars, msgVars, storeVars, runsVars >>

\* a query or a commit rejects: the catch block of FirestoreService.cleanup
\* logs and rethrows
CleanupRejects ==
  /\ clpc \in { "getResults", "commitResults", "getJobs", "commitJobs",
                "getFiles", "commitFiles" }
  /\ clpc' = "threw"
  /\ UNCHANGED << clOptions, clOlderThanDays, clStore, clSnapshot >>
  /\ UNCHANGED << vars, aggVars, dispVars, adaptVars, gateVars, giftVars, sigVars, frameVars, audioVars, scanVars, msgVars, storeVars, runsVars >>

CleanNext ==
  \/ CleanupCalled
  \/ CleanupResultsQueried
  \/ CleanupResultsDeleted
  \/ CleanupJobsQueried
  \/ CleanupJobsDeleted
  \/ CleanupFilesQueried
  \/ CleanupFilesDeleted
  \/ CleanupRejects

CleanSpec == CleanInit /\ [][CleanNext]_cleanVars

\* ------------------------------- targeted scans, with their frame files
\* the targeted processes of one run that are followed
TargetedCalls == {1, 2}

\* analyzeFramesInSegment: const batchSize = 3
BatchSize == 3

\* the names segment_frame_%04d.png, by their number
FrameFileNames == 1..MaxSegmentFrames

\* what a file holds: the frame with this index of the segment of this call
FrameContent(owner, index) == [ owner |-> owner, index |-> index ]
NoFile == FrameContent(0, 0)

\* a call of analyzeVideoSegment: where it is, the number of frames ffmpeg
\* makes of its segment and has written, framePaths, the loop variable i,
\* the frames of the batch in flight, every content read with
\* readFileSync, and frameResults
TargetedCall(count) ==
  [ pc |-> "downloadVideoSegment", count |-> count, written |-> 0,
    framePaths |-> << >>, i |-> 0, batch |-> << >>, read |-> << >>,
    frameResults |-> << >> ]

\* fs.readdirSync(tempDir): the names present, in ascending order
RECURSIVE ReadDir(_, _)
ReadDir(dir, name) ==
  IF name > MaxSegmentFrames THEN << >>
  ELSE (IF dir[name] # NoFile THEN << name >> ELSE << >>)
       \o ReadDir(dir, name + 1)

\* the synchronous start of the callbacks of one batch: readFileSync of
\* every path; a path that is gone throws, and the callback returns null
\* without unlinking
BatchOf(call, dir) ==
  LET last == Min(call.i + BatchSize, Len(call.framePaths))
  IN  [ index \in 1..(last - call.i) |->
          LET name == call.framePaths[call.i + index]
          IN  [ name |-> name, frameNumber |-> call.i + index - 1,
                content |-> dir[name],
                status |-> IF dir[name] # NoFile THEN "pending" ELSE "null" ] ]

ContentsOf(batch) ==
  LET readable == SelectSeq(batch, LAMBDA entry : entry.content # NoFile)
  IN  [ k \in 1..Len(readable) |-> readable[k].content ]

FrameResultsOf(batch) ==
  LET analysed == SelectSeq(batch, LAMBDA entry : entry.status = "analysed")
  IN  [ k \in 1..Len(analysed) |->
          [ frameNumber |-> analysed[k].frameNumber,
            content |-> analysed[k].content ] ]

\* the for loop of analyzeFramesInSegment from the batch at i on, up to
\* the first batch that has a callback waiting, or to the return
RECURSIVE RunBatches(_, _)
RunBatches(call, dir) ==
  IF call.i >= Len(call.framePaths)
  THEN [ call EXCEPT !.pc = "returned", !.batch = << >> ]
  ELSE LET batch == BatchOf(call, dir)
           started == [ call EXCEPT !.batch = batch,
                                    !.read = @ \o ContentsOf(batch) ]
       IN  IF \E k \in 1..Len(batch) : batch[k].status = "pending"
           THEN [ started EXCEPT !.pc = "awaitBatch" ]
           ELSE RunBatches([ started EXCEPT !.i = @ + BatchSize,
                                            !.batch = << >> ], dir)

\* after a callback of the batch returned: Promise.all resolves once none
\* is waiting, the results that are not null are pushed and the loop goes on
AfterCallback(call, dir) ==
  IF \E k \in 1..Len(call.batch) : call.batch[k].status = "pending"
  THEN call
  ELSE RunBatches([ call EXCEPT
                      !.frameResults = @ \o FrameResultsOf(call.batch),
                      !.i = @ + BatchSize ], dir)

FrameInit ==
  /\ RunNotStarted
  /\ AggIdle
  /\ DispIdle
  /\ AdaptIdle
  /\ RunsIdle
  /\ StoreIdle
  /\ MsgIdle
  /\ ScanIdle
  /\ AudioIdle
  /\ GateIdle
  /\ GiftIdle
  /\ SigIdle
  /\ CleanIdle
  /\ \E counts \in [ TargetedCalls -> 1..MaxSegmentFrames ] :
       segmentCalls = [ p \in TargetedCalls |-> TargetedCall(counts[p]) ]
  /\ segmentFrames = [ name \in FrameFileNames |-> NoFile ]

\* downloadVideoSegment resolves; extractFramesFromSegment starts ffmpeg
SegmentDownloaded(p) ==
  /\ segmentCalls[p].pc = "downloadVideoSegment"
  /\ segmentCalls' = [ segmentCalls EXCEPT ![p].pc = "ffmpeg" ]
  /\ UNCHANGED segmentFrames
  /\ UNCHANGED << vars, aggVars, dispVars, adaptVars, gateVars, giftVars, sigVars, cleanVars, audioVars, scanVars, msgVars, storeVars, runsVars >>

\* downloadVideoSegment rejects; analyzeVideoSegment logs and rethrows
SegmentDownloadFails(p) ==
  /\ segmentCalls[p].pc = "downloadVideoSegment"
  /\ segmentCalls' = [ segmentCalls EXCEPT ![p].pc = "threw" ]
  /\ UNCHANGED segmentFrames
  /\ UNCHANGED << vars, aggVars, dispVars, adaptVars, gateVars, giftVars, sigVars, cleanVars, audioVars, scanVars, msgVars, storeVars, runsVars >>

\* ffmpeg writes the next frame of the segment to segment_frame_%04d.png
FfmpegWritesFrame(p) ==
  /\ segmentCalls[p].pc = "ffmpeg"
  /\ segmentCalls[p].written < segmentCalls[p].count
  /\ LET index == segmentCalls[p].written + 1
     IN  /\ segmentFrames' =
              [ segmentFrames EXCEPT ![index] = FrameContent(p, index) ]
         /\ segmentCalls' = [ segmentCalls EXCEPT ![p].written = index ]
  /\ UNCHANGED << vars, aggVars, dispVars, adaptVars, gateVars, giftVars, sigVars, cleanVars, audioVars, scanVars, msgVars, storeVars, runsVars >>

\* ffmpeg fails; the catch block of analyzeFramesInSegment returns []
FfmpegFails(p) ==
  /\ segmentCalls[p].pc = "ffmpeg"
  /\ segmentCalls' = [ segmentCalls EXCEPT ![p].pc = "returned" ]
  /\ UNCHANGED segmentFrames
  /\ UNCHANGED << vars, aggVars, dispVars, adaptVars, gateVars, giftVars, sigVars, cleanVars, audioVars, scanVars, msgVars, storeVars, runsVars >>

\* ffmpeg ends: the directory is read, and the loop starts its first batch
FfmpegEnds(p) ==
  /\ segmentCalls[p].pc = "ffmpeg"
  /\ segmentCalls[p].written = segmentCalls[p].count
  /\ segmentCalls' =
       [ segmentCalls EXCEPT ![p] =
           RunBatches([ @ EXCEPT !.framePaths = ReadDir(segmentFrames, 1) ],
                      segmentFrames) ]
  /\ UNCHANGED segmentFrames
  /\ UNCHANGED << vars, aggVars, dispVars, adaptVars, gateVars, giftVars, sigVars, cleanVars, audioVars, scanVars, msgVars, storeVars, runsVars >>

\* analyzeThumbnail settles for one frame of the batch; the finally block
\* unlinks the path if it exists
FrameCallbackReturns(p) ==
  /\ segmentCalls[p].pc = "awaitBatch"
  /\ \E k \in 1..Len(segmentCalls[p].batch), analysed \in BOOLEAN :
       /\ segmentCalls[p].batch[k].status = "pending"
       /\ LET name == segmentCalls[p].batch[k].name
              dir == [ segmentFrames EXCEPT ![name] = NoFile ]
              call == [ segmentCalls[p] EXCEPT !.batch[k].status =
                          IF analysed THEN "analysed" ELSE "null" ]
          IN  /\ segmentFrames' = dir
              /\ segmentCalls' = [ segmentCalls EXCEPT ![p] = AfterCallback(call, dir) ]
  /\ UNCHANGED << vars, aggVars, dispVars, adaptVars, gateVars, giftVars, sigVars, cleanVars, audioVars, scanVars, msgVars, storeVars, runsVars >>

FrameNext ==
  \E p \in TargetedCalls :
    \/ SegmentDownloaded(p)
    \/ SegmentDownloadFails(p)
    \/ FfmpegWritesFrame(p)
    \/ FfmpegFails(p)
    \/ FfmpegEnds(p)
    \/ FrameCallbackReturns(p)

FrameSpec == FrameInit /\ [][FrameNext]_frameVars

\* --------------------------------- the audio passes, with segment files
\* containsLaughter: laughterIndicators
LaughterIndicators ==
  << << "h","a","h","a" >>,
     << "h","e","h","e" >>,
     << "h","a","h" >>,
     << "l","a","u","g","h" >>,
     << "l","a","u","g","h","i","n","g" >>,
     << "l","o","l" >>,
     << "c","h","u","c","k","l","e" >>,
     << "g","i","g","g","l","e" >>,
     << "c","h","u","c","k","l","i","n","g" >>,
     << "g","i","g","g","l","i","n","g" >> >>

\* isSuspiciousContent: suspiciousKeywords
SuspiciousKeywords ==
  << << "g","i","f","t"," ","c","a","r","d" >>,
     << "a","m","a","z","o","n"," ","g","i","f","t" >>,
     << "c","o","u","p","o","n" >>,
     << "r","e","d","e","e","m" >>,
     << "c","l","a","i","m" >>,
     << "w","i","n","n","e","r" >>,
     << "c","o","n","g","r","a","t","u","l","a","t","i","o","n","s" >>,
     << "f","r","e","e"," ","m","o","n","e","y" >>,
     << "c","a","s","h" >>,
     << "d","o","l","l","a","r","s" >> >>

\* String.prototype.toLowerCase
ToLowerCaseChar(ch) ==
  IF \E i \in 1..26 : Letters[i] = ch
  THEN LowerLetters[CHOOSE i \in 1..26 : Letters[i] = ch]
  ELSE ch

ToLowerCase(str) == [ i \in 1..Len(str) |-> ToLowerCaseChar(str[i]) ]

\* words.some(word => lowerTranscription.includes(word))
IncludesSome(transcription, words) ==
  \E i \in 1..Len(words) : Includes(ToLowerCase(transcription), words[i])

ContainsLaughter(transcription) ==
  IncludesSome(transcription, LaughterIndicators)

IsSuspiciousContent(transcription) ==
  IncludesSome(transcription, SuspiciousKeywords)

\* what is said in a segment: laughter, a suspicious word, nothing
Transcriptions ==
  { << "H","a","h","a" >>, << "c","l","a","i","m" >>, << >> }

AudioSegments == 1..MaxAudioSegments

PassNames == { "laughter", "suspicious" }

\* detectLaughterPeaks or analyzeSuspiciousSegments: where it is, segments
\* in the order the ffmpeg runs ended, the position of the loop in it, the
\* segments pushed to the list it returns, and whether a provider failed
AudioPass ==
  [ pc |-> "getAudioDuration", segments |-> << >>, index |-> 1,
    pushed |-> << >>, providerFailed |-> FALSE ]

\* the for loop from the segment at index on, up to the first call of
\* speechClient.recognize or to the return.  For a segment whose file is
\* gone readFileSync throws, transcribeAudioSegment returns '', nothing
\* is pushed and nothing is unlinked.
RECURSIVE SegmentLoop(_, _)
SegmentLoop(pass, files) ==
  IF pass.index > Len(pass.segments)
  THEN [ pass EXCEPT !.pc = "returned" ]
  ELSE IF files[pass.segments[pass.index]]
       THEN [ pass EXCEPT !.pc = "recognize" ]
       ELSE SegmentLoop([ pass EXCEPT !.index = @ + 1 ], files)

\* whether the pass pushes an entry for a transcription
Detects(name, transcription) ==
  IF name = "laughter" THEN ContainsLaughter(transcription)
  ELSE IsSuspiciousContent(transcription)

AudioInit ==
  /\ RunNotStarted
  /\ AggIdle
  /\ DispIdle
  /\ AdaptIdle
  /\ RunsIdle
  /\ StoreIdle
  /\ MsgIdle
  /\ ScanIdle
  /\ GateIdle
  /\ GiftIdle
  /\ SigIdle
  /\ CleanIdle
  /\ FrameIdle
  /\ audioPasses = [ name \in PassNames |-> AudioPass ]
  /\ segmentFiles = [ segment \in AudioSegments |-> FALSE ]
  /\ audioTranscripts \in [ AudioSegments -> Transcriptions ]

\* getAudioDuration resolves; one ffmpeg is started for every segment
AudioDurationKnown(name) ==
  /\ audioPasses[name].pc = "getAudioDuration"
  /\ audioPasses' = [ audioPasses EXCEPT ![name].pc = "split" ]
  /\ UNCHANGED << segmentFiles, audioTranscripts >>
  /\ UNCHANGED << vars, aggVars, dispVars, adaptVars, gateVars, giftVars, sigVars, cleanVars, frameVars, scanVars, msgVars, storeVars, runsVars >>

\* getAudioDuration or an ffmpeg of the split rejects; the outer catch
\* block of the pass returns []
AudioSplitFails(name) ==
  /\ audioPasses[name].pc \in { "getAudioDuration", "split" }
  /\ audioPasses' = [ audioPasses EXCEPT ![name].pc = "returned",
                                         ![name].providerFailed = TRUE ]
  /\ UNCHANGED << segmentFiles, audioTranscripts >>
  /\ UNCHANGED << vars, aggVars, dispVars, adaptVars, gateVars, giftVars, sigVars, cleanVars, frameVars, scanVars, msgVars, storeVars, runsVars >>

\* the ffmpeg of one segment ends, having written segment_<i>.wav; after
\* the last one Promise.all resolves and the loop starts
AudioSegmentWritten(name) ==
  /\ audioPasses[name].pc = "split"
  /\ \E segment \in AudioSegments :
       /\ \A k \in 1..Len(audioPasses[name].segments) :
            audioPasses[name].segments[k] # segment
       /\ LET files == [ segmentFiles EXCEPT ![segment] = TRUE ]
              pass == [ audioPasses[name] EXCEPT !.segments = Append(@, segment) ]
          IN  /\ segmentFiles' = files
              /\ audioPasses' =
                   [ audioPasses EXCEPT ![name] =
                       IF Len(pass.segments) = MaxAudioSegments
                       THEN SegmentLoop(pass, files) ELSE pass ]
  /\ UNCHANGED audioTranscripts
  /\ UNCHANGED << vars, aggVars, dispVars, adaptVars, gateVars, giftVars, sigVars, cleanVars, frameVars, scanVars, msgVars, storeVars, runsVars >>

\* speechClient.recognize settles for the segment of the loop: the
\* transcription, or '' from the catch block of transcribeAudioSegment;
\* an entry is pushed if it has a marker, the file is unlinked if it
\* exists, and the loop goes on
AudioSegmentTranscribed(name) ==
  /\ audioPasses[name].pc = "recognize"
  /\ \E recognized \in BOOLEAN :
       LET pass == audioPasses[name]
           segment == pass.segments[pass.index]
           transcription ==
             IF recognized THEN audioTranscripts[segment] ELSE << >>
           files == [ segmentFiles EXCEPT ![segment] = FALSE ]
       IN  /\ segmentFiles' = files
           /\ audioPasses' =
                [ audioPasses EXCEPT ![name] =
                    SegmentLoop(
                      [ pass EXCEPT
                          !.pushed = IF Detects(name, transcription)
                                     THEN Append(@, segment) ELSE @,
                          !.providerFailed = @ \/ ~ recognized,
                          !.index = @ + 1 ],
                      files) ]
  /\ UNCHANGED audioTranscripts
  /\ UNCHANGED << vars, aggVars, dispVars, adaptVars, gateVars, giftVars, sigVars, cleanVars, frameVars, scanVars, msgVars, storeVars, runsVars >>

AudioNext ==
  \E name \in PassNames :
    \/ AudioDurationKnown(name)
    \/ AudioSplitFails(name)
    \/ AudioSegmentWritten(name)
    \/ AudioSegmentTranscribed(name)

AudioSpec == AudioInit /\ [][AudioNext]_audioVars

\* ------------------------------------- the scans, from frame to detection
\* what is to be read on a sampled frame: the characters of the text, and
\* the pieces of it that the money patterns match
FrameText(chars, matches) == [ chars |-> chars, matches |-> matches ]

\* a code next to an amount, a code alone in two writings, a code in lower
\* case next to an amount with cents, an amount alone, an amount that is
\* not supported, and nothing
FrameTexts ==
  { FrameText(Written(GroupsK, Dashes) \o << " ", "$", "5", "5", "0" >>,
              << MoneyMatch(550, FALSE) >>),
    FrameText(Written(GroupsK, Dashes), << >>),
    FrameText(Written(GroupsO, NoSeparators), << >>),
    FrameText(Written(GroupsLowerK, << << " " >>, << " " >> >>)
                \o << " ", "$", "5", "5", "0", ".", "0", "0" >>,
              << MoneyMatch(550, TRUE) >>),
    FrameText(<< "$", "5", "5", "0" >>, << MoneyMatch(550, FALSE) >>),
    FrameText(<< "$", "3", "0", "0" >>, << MoneyMatch(300, FALSE) >>),
    FrameText(<< >>, << >>) }

\* what client.textDetection resolves with for a frame
VisionResponseFor(frameText) ==
  IF frameText.chars = << >> THEN NoAnnotations
  ELSE Annotations("text", frameText.matches, 90)

\* a number in a template literal: its decimal digits
RECURSIVE NumberToString(_)
NumberToString(n) ==
  LET digit == << "0","1","2","3","4","5","6","7","8","9" >>[(n % 10) + 1]
  IN  IF n < 10 THEN << digit >> ELSE NumberToString(n \div 10) \o << digit >>

\* the batch callback of analyzeFrames and of analyzeFramesInSegment:
\* ocrResults of the frame result, one per monetary detection, its text
\* the template literal `$${d.amount}`
FrameOcrResults(monetaryDetections) ==
  [ i \in 1..Len(monetaryDetections) |->
      [ text |-> << "$" >> \o NumberToString(monetaryDetections[i].amount),
        confidence |-> monetaryDetections[i].confidence ] ]

\* the frame result of the batch callback, and null
FrameResult(frameNumber, ocrResults) ==
  [ null |-> FALSE, frameNumber |-> frameNumber, ocrResults |-> ocrResults ]
NullFrameResult(frameNumber) ==
  [ null |-> TRUE, frameNumber |-> frameNumber, ocrResults |-> << >> ]

\* batchResults.filter(r => r !== null), over all batches
FrameAnalysisOf(outcomes) == SelectSeq(outcomes, LAMBDA r : ~ r.null)

ScanInit ==
  /\ RunNotStarted
  /\ AggIdle
  /\ DispIdle
  /\ AdaptIdle
  /\ RunsIdle
  /\ StoreIdle
  /\ MsgIdle
  /\ AudioIdle
  /\ FrameIdle
  /\ CleanIdle
  /\ SigIdle
  /\ GiftIdle
  /\ GateIdle
  /\ scanKind \in {"full", "targeted"}
  /\ scanFrames \in SeqsUpTo(FrameTexts, MaxFrames)
  /\ scanOutcomes = << >>
  /\ scanReturned = NoResult
  /\ scanProcessResult = NoResult

\* the batch callback for the next frame: analyzeThumbnail resolves, with
\* the text detection of the provider behind it.  The callbacks of a batch
\* run side by side and Promise.all keeps their results in the order of
\* the frames, so the frames are taken in that order.
ScanFrameAnalyzed ==
  /\ scanReturned = NoResult
  /\ Len(scanOutcomes) < Len(scanFrames)
  /\ LET frameNumber == Len(scanOutcomes)
         response == VisionResponseFor(scanFrames[frameNumber + 1])
         analysis == AnalyzeThumbnail(OcrPerformOCR(response))
     IN  scanOutcomes' =
           Append(scanOutcomes,
                  FrameResult(frameNumber,
                              FrameOcrResults(analysis.monetaryDetections)))
  /\ UNCHANGED << scanKind, scanFrames, scanReturned, scanProcessResult >>
  /\ UNCHANGED << vars, aggVars, dispVars, adaptVars, gateVars, giftVars, sigVars, cleanVars, frameVars, audioVars, msgVars, storeVars, runsVars >>

\* the batch callback for the next frame when client.textDetection
\* rejects: OCRService.performOCR returns the empty result
ScanFrameProviderFails ==
  /\ scanReturned = NoResult
  /\ Len(scanOutcomes) < Len(scanFrames)
  /\ LET analysis == AnalyzeThumbnail(EmptyOCRResult)
     IN  scanOutcomes' =
           Append(scanOutcomes,
                  FrameResult(Len(scanOutcomes),
                              FrameOcrResults(analysis.monetaryDetections)))
  /\ UNCHANGED << scanKind, scanFrames, scanReturned, scanProcessResult >>
  /\ UNCHANGED << vars, aggVars, dispVars, adaptVars, gateVars, giftVars, sigVars, cleanVars, frameVars, audioVars, msgVars, storeVars, runsVars >>

\* the batch callback for the next frame when analyzeThumbnail throws: the
\* catch block returns null
ScanFrameThrows ==
  /\ scanReturned = NoResult
  /\ Len(scanOutcomes) < Len(scanFrames)
  /\ scanOutcomes' = Append(scanOutcomes, NullFrameResult(Len(scanOutcomes)))
  /\ UNCHANGED << scanKind, scanFrames, scanReturned, scanProcessResult >>
  /\ UNCHANGED << vars, aggVars, dispVars, adaptVars, gateVars, giftVars, sigVars, cleanVars, frameVars, audioVars, msgVars, storeVars, runsVars >>

\* the detections of detectGiftCodes over the frames, frame after frame
FrameCodes(frameAnalysis) ==
  Flatten([ i \in 1..Len(frameAnalysis) |->
              DetectGiftCodes(frameAnalysis[i].ocrResults) ])

\* analyzeVideo and analyzeVideoSegment after the last batch:
\* extractGiftCodesFromFrames, and the value returned
ScanAnalyzerReturns ==
  /\ scanReturned = NoResult
  /\ Len(scanOutcomes) = Len(scanFrames)
  /\ LET frameAnalysis == FrameAnalysisOf(scanOutcomes)
     IN  scanReturned' =
           [ giftCodes |-> RemoveDuplicateGiftCodes(FrameCodes(frameAnalysis)),
             frameAnalysis |-> frameAnalysis ]
  /\ UNCHANGED << scanKind, scanFrames, scanOutcomes, scanProcessResult >>
  /\ UNCHANGED << vars, aggVars, dispVars, adaptVars, gateVars, giftVars, sigVars, cleanVars, frameVars, audioVars, msgVars, storeVars, runsVars >>

\* runFullVideoAnalysis after analyzeVideo: detectGiftCodes over
\* result.frameAnalysis once more, and process.result
ScanFullProcessCompleted ==
  /\ scanKind = "full"
  /\ scanReturned # NoResult
  /\ scanProcessResult = NoResult
  /\ scanProcessResult' =
       [ giftCodes |-> FrameCodes(scanReturned.frameAnalysis),
         frameAnalysis |-> scanReturned.frameAnalysis ]
  /\ UNCHANGED << scanKind, scanFrames, scanOutcomes, scanReturned >>
  /\ UNCHANGED << vars, aggVars, dispVars, adaptVars, gateVars, giftVars, sigVars, cleanVars, frameVars, audioVars, msgVars, storeVars, runsVars >>

\* runTargetedVideoAnalysis after analyzeVideoSegment: process.result
ScanTargetedProcessCompleted ==
  /\ scanKind = "targeted"
  /\ scanReturned # NoResult
  /\ scanProcessResult = NoResult
  /\ scanProcessResult' =
       [ giftCodes |-> scanReturned.giftCodes,
         frameAnalysis |-> scanReturned.frameAnalysis ]
  /\ UNCHANGED << scanKind, scanFrames, scanOutcomes, scanReturned >>
  /\ UNCHANGED << vars, aggVars, dispVars, adaptVars, gateVars, giftVars, sigVars, cleanVars, frameVars, audioVars, msgVars, storeVars, runsVars >>

ScanNext ==
  \/ ScanFrameAnalyzed
  \/ ScanFrameProviderFails
  \/ ScanFrameThrows
  \/ ScanAnalyzerReturns
  \/ ScanFullProcessCompleted
  \/ ScanTargetedProcessCompleted

ScanSpec == ScanInit /\ [][ScanNext]_scanVars

\* ----------------------------------------- the subscription handler
\* message.data of a delivered message: the JSON of a video and a job, a
\* text that is no JSON, and the JSON of an object without a job
Payloads == { "video and job", "not JSON", "no job" }

\* a delivered message: where its handleMessage call stands, what became
\* of it, and how often message.ack and message.nack were called
Message(payload) ==
  [ payload |-> payload, pc |-> "delivered", outcome |-> "none",
    acks |-> 0, nacks |-> 0 ]

MsgInit ==
  /\ RunNotStarted
  /\ AggIdle
  /\ DispIdle
  /\ AdaptIdle
  /\ RunsIdle
  /\ StoreIdle
  /\ AudioIdle
  /\ FrameIdle
  /\ CleanIdle
  /\ SigIdle
  /\ GiftIdle
  /\ GateIdle
  /\ ScanIdle
  /\ messages \in [ 1..MaxMessages -> { Message(p) : p \in Payloads } ]
  /\ tasks = {}

\* the catch block of handleMessage: message.nack()
HandleMessageCatch(message, outcome) ==
  [ message EXCEPT !.pc = "returned", !.outcome = outcome, !.nacks = @ + 1 ]

\* variant: message.ack() is called before the task is added
HandleMessageStartsAckFirst(m) ==
  /\ messages[m].pc = "delivered"
  /\ messages' =
       [ messages EXCEPT
           ![m] = IF messages[m].payload = "video and job"
                  THEN [ @ EXCEPT !.pc = "createTask", !.acks = @ + 1 ]
                  ELSE HandleMessageCatch(@, "threw before the task") ]
  /\ UNCHANGED tasks
  /\ UNCHANGED << vars, aggVars, dispVars, adaptVars, gateVars, giftVars, sigVars, cleanVars, frameVars, audioVars, scanVars, storeVars, runsVars >>

\* handleMessage up to its await: JSON.parse throws on a text that is no
\* JSON, job.id and job.priority throw on an object without a job;
\* otherwise addVideoProcessingTask runs up to client.createTask
HandleMessageStarts(m) ==
  /\ messages[m].pc = "delivered"
  /\ messages' =
       [ messages EXCEPT
           ![m] = IF messages[m].payload = "video and job"
                  THEN [ @ EXCEPT !.pc = "createTask" ]
                  ELSE HandleMessageCatch(@, "threw before the task") ]
  /\ UNCHANGED tasks
  /\ UNCHANGED << vars, aggVars, dispVars, adaptVars, gateVars, giftVars, sigVars, cleanVars, frameVars, audioVars, scanVars, storeVars, runsVars >>

\* client.createTask resolves: addVideoProcessingTask returns the task
\* id, and handleMessage calls message.ack()
CreateTaskResolves(m) ==
  /\ messages[m].pc = "createTask"
  /\ tasks' = tasks \cup {m}
  /\ messages' =
       [ messages EXCEPT
           ![m] = [ @ EXCEPT !.pc = "returned", !.outcome = "task added",
                             !.acks = @ + 1 ] ]
  /\ UNCHANGED << vars, aggVars, dispVars, adaptVars, gateVars, giftVars, sigVars, cleanVars, frameVars, audioVars, scanVars, storeVars, runsVars >>

\* client.createTask rejects: addVideoProcessingTask logs and rethrows,
\* and the catch block of handleMessage is entered
CreateTaskRejects(m) ==
  /\ messages[m].pc = "createTask"
  /\ messages' =
       [ messages EXCEPT ![m] = HandleMessageCatch(@, "task not added") ]
  /\ UNCHANGED tasks
  /\ UNCHANGED << vars, aggVars, dispVars, adaptVars, gateVars, giftVars, sigVars, cleanVars, frameVars, audioVars, scanVars, storeVars, runsVars >>

MsgNext ==
  \E m \in 1..MaxMessages :
    \/ HandleMessageStarts(m)
    \/ CreateTaskResolves(m)
    \/ CreateTaskRejects(m)

MsgSpec == MsgInit /\ [][MsgNext]_msgVars

\* ------------------------------------------------------ the result store
\* the video ids of the store
StoredVideoIds == { "v1", "v2" }

\* the verdicts processVideo passes to saveResult: the minimal result, and
\* what compileCoordinatedResults makes of a verdict of the coordinator
Verdicts ==
  { [ videoId |-> id ] @@ CreateMinimalResult(ThumbnailResult) :
      id \in StoredVideoIds,
      ThumbnailResult \in { t \in ThumbnailResults : SkipDetailedAnalysis(t) } }
    \cup
  { [ videoId |-> id ]
      @@ CompileCoordinatedResults(
           ThumbnailResult,
           AggregateResults(
             << CompletedProcess("full-video", NoCall, [ giftCodes |-> codes ]),
                CompletedProcess("audio", NoCall, [ laughterPeaks |-> peaks ]) >>)) :
      id \in StoredVideoIds,
      ThumbnailResult \in { t \in ThumbnailResults : ~ SkipDetailedAnalysis(t) },
      codes \in CodeLists, peaks \in EventLists }

\* the value of the property f of an object: undefined when it has none
Property(object, f) ==
  IF HasField(object, f) THEN [ defined |-> TRUE, value |-> object[f] ]
  ELSE [ defined |-> FALSE ]

\* the object saveResult passes to docRef.set
SavedDocument(verdict) ==
  [ videoId |-> verdict.videoId,
    thumbnailAnalysis |-> Property(verdict, "thumbnailAnalysis"),
    videoAnalysis |-> Property(verdict, "videoAnalysis"),
    transcriptAnalysis |-> Property(verdict, "transcriptAnalysis"),
    audioAnalysis |-> Property(verdict, "audioAnalysis"),
    summary |-> Property(verdict, "summary") ]

\* the object getResult builds from doc.data()
ReadDocument(data) ==
  [ videoId |-> data.videoId,
    thumbnailAnalysis |-> data.thumbnailAnalysis,
    videoAnalysis |-> data.videoAnalysis,
    transcriptAnalysis |-> data.transcriptAnalysis,
    audioAnalysis |-> data.audioAnalysis,
    summary |-> data.summary ]

NoDocument == [ exists |-> FALSE ]

StoreInit ==
  /\ RunNotStarted
  /\ AggIdle
  /\ DispIdle
  /\ AdaptIdle
  /\ RunsIdle
  /\ AudioIdle
  /\ FrameIdle
  /\ CleanIdle
  /\ SigIdle
  /\ GiftIdle
  /\ GateIdle
  /\ ScanIdle
  /\ MsgIdle
  /\ storePc = "idle"
  /\ storeArg = NoResult
  /\ storeDocs = [ id \in StoredVideoIds |-> NoDocument ]
  /\ storeSaved = [ id \in StoredVideoIds |-> NoResult ]
  /\ storeSaves = 0
  /\ storeRead = NoResult

\* saveResult(result) is called, up to the await of docRef.set
SaveResultCalled ==
  /\ storePc = "idle"
  /\ storeSaves < MaxSaves
  /\ \E verdict \in Verdicts : storeArg' = verdict
  /\ storePc' = "set"
  /\ storeSaves' = storeSaves + 1
  /\ storeRead' = NoResult
  /\ UNCHANGED << storeDocs, storeSaved >>
  /\ UNCHANGED << vars, aggVars, dispVars, adaptVars, gateVars, giftVars, sigVars, cleanVars, frameVars, audioVars, scanVars, msgVars, runsVars >>

\* docRef.set resolves: the document with the id of the verdict is
\* replaced.  A property that is undefined is not stored, and reads as
\* undefined.
SaveResultResolves ==
  /\ storePc = "set"
  /\ storeDocs' =
       [ storeDocs EXCEPT
           ![storeArg.videoId] =
             [ exists |-> TRUE, data |-> SavedDocument(storeArg) ] ]
  /\ storeSaved' = [ storeSaved EXCEPT ![storeArg.videoId] = storeArg ]
  /\ storePc' = "idle"
  /\ storeArg' = NoResult
  /\ UNCHANGED << storeSaves, storeRead >>
  /\ UNCHANGED << vars, aggVars, dispVars, adaptVars, gateVars, giftVars, sigVars, cleanVars, frameVars, audioVars, scanVars, msgVars, runsVars >>

\* docRef.set throws or rejects, as it does for an undefined property
\* when the client is not told to ignore them: saveResult logs and
\* rethrows
SaveResultRejects ==
  /\ storePc = "set"
  /\ storePc' = "idle"
  /\ storeArg' = NoResult
  /\ UNCHANGED << storeDocs, storeSaved, storeSaves, storeRead >>
  /\ UNCHANGED << vars, aggVars, dispVars, adaptVars, gateVars, giftVars, sigVars, cleanVars, frameVars, audioVars, scanVars, msgVars, runsVars >>

\* getResult(videoId) is called, up to the await of docRef.get
GetResultCalled ==
  /\ storePc = "idle"
  /\ storeRead = NoResult
  /\ \E id \in StoredVideoIds : storeArg' = [ videoId |-> id ]
  /\ storePc' = "get"
  /\ UNCHANGED << storeDocs, storeSaved, storeSaves, storeRead >>
  /\ UNCHANGED << vars, aggVars, dispVars, adaptVars, gateVars, giftVars, sigVars, cleanVars, frameVars, audioVars, scanVars, msgVars, runsVars >>

\* docRef.get resolves: null without a document, the object built from
\* its data otherwise
GetResultResolves ==
  /\ storePc = "get"
  /\ LET doc == storeDocs[storeArg.videoId]
     IN  storeRead' =
           [ videoId |-> storeArg.videoId,
             value |-> IF doc.exists
                       THEN [ null |-> FALSE, result |-> ReadDocument(doc.data) ]
                       ELSE [ null |-> TRUE ] ]
  /\ storePc' = "idle"
  /\ storeArg' = NoResult
  /\ UNCHANGED << storeDocs, storeSaved, storeSaves >>
  /\ UNCHANGED << vars, aggVars, dispVars, adaptVars, gateVars, giftVars, sigVars, cleanVars, frameVars, audioVars, scanVars, msgVars, runsVars >>

StoreNext ==
  \/ SaveResultCalled
  \/ SaveResultResolves
  \/ SaveResultRejects
  \/ GetResultCalled
  \/ GetResultResolves

StoreSpec == StoreInit /\ [][StoreNext]_storeVars

\* --------------------------------------- two runs on one coordinator
\* VideoProcessor has one ProcessCoordinator; processVideo calls on it may
\* overlap.  An AnalysisProcess object is referred to by the run that
\* created it and its position among the objects of that run.
Runs == { 1, 2 }

RunVideoIds == { "v", "w" }

\* what the detectors find in a video
CodesOfVideo(videoId) ==
  IF videoId = "v" THEN << Detection("AAAA-112233-BBBB", 90) >>
  ELSE << Detection("CCCC-445566-DDDD", 80) >>
PeaksOfVideo(videoId) ==
  IF videoId = "v" THEN << [ startTime |-> 10 ] >> ELSE << >>

\* the objects behind a list of references
Deref(refs) == [ i \in 1..Len(refs) |-> processObjects[refs[i]] ]

\* variant: the verdict is built from the values of activeProcesses
AllProcessesOfSharedMap(r) ==
  LET refs == { sharedProcesses[id].ref : id \in DOMAIN sharedProcesses }
      RECURSIVE Ordered(_)
      Ordered(S) ==
        IF S = {} THEN << >>
        ELSE LET first == CHOOSE a \in S :
                            \A b \in S : a[1] < b[1] \/ (a[1] = b[1] /\ a[2] <= b[2])
             IN  << first >> \o Ordered(S \ {first})
  IN  Deref(Ordered(refs))

\* const allProcesses = [...processes, ...targetedProcesses]
AllProcessesOf(r) == Deref(runProcesses[r] \o runTargeted[r])

RunsInit ==
  /\ RunNotStarted
  /\ AggIdle
  /\ DispIdle
  /\ AdaptIdle
  /\ AudioIdle
  /\ FrameIdle
  /\ CleanIdle
  /\ SigIdle
  /\ GiftIdle
  /\ GateIdle
  /\ ScanIdle
  /\ MsgIdle
  /\ StoreIdle
  /\ runPc = [ r \in Runs |-> "notCalled" ]
  /\ runVideoId \in [ Runs -> RunVideoIds ]
  /\ runProcesses = [ r \in Runs |-> << >> ]
  /\ runTargeted = [ r \in Runs |-> << >> ]
  /\ runLaughTimestamps = [ r \in Runs |-> << >> ]
  /\ runResult = [ r \in Runs |-> NoResult ]
  /\ processObjects = << >>
  /\ sharedProcesses = << >>
  /\ runsNow = 0

\* a millisecond passes
RunsTick ==
  /\ runsNow < MaxRunsClock
  /\ runsNow' = runsNow + 1
  /\ UNCHANGED << runPc, runVideoId, runProcesses, runTargeted,
                  runLaughTimestamps, runResult, processObjects,
                  sharedProcesses >>
  /\ UNCHANGED << vars, aggVars, dispVars, adaptVars, gateVars, giftVars, sigVars, cleanVars, frameVars, audioVars, scanVars, msgVars, storeVars >>

\* analyzeVideoForGiftCodes is called: startParallelAnalysis creates the
\* three objects, and each run* function stores its object in
\* activeProcesses under its id and runs up to the await of its adapter
RunStartParallelAnalysis(r) ==
  /\ runPc[r] = "notCalled"
  /\ LET refs == [ i \in 1..Len(BaseTypes) |-> << r, i >> ]
     IN  /\ runProcesses' = [ runProcesses EXCEPT ![r] = refs ]
         /\ processObjects' =
              [ ref \in DOMAIN processObjects \cup { refs[i] : i \in 1..Len(refs) } |->
                  IF ref \in DOMAIN processObjects THEN processObjects[ref]
                  ELSE RunStart(NewProcess(BaseTypes[ref[2]], NoCall)) ]
         /\ sharedProcesses' =
              SetAll(sharedProcesses,
                     [ i \in 1..Len(refs) |->
                         [ id |-> BaseId(BaseTypes[i], runVideoId[r], runsNow),
                           type |-> BaseTypes[i], ref |-> refs[i] ] ])
  /\ runPc' = [ runPc EXCEPT ![r] = "awaitBase" ]
  /\ UNCHANGED << runVideoId, runTargeted, runLaughTimestamps, runResult, runsNow >>
  /\ UNCHANGED << vars, aggVars, dispVars, adaptVars, gateVars, giftVars, sigVars, cleanVars, frameVars, audioVars, scanVars, msgVars, storeVars >>

\* the adapter of a base object of the run resolves: the run* function
\* completes its object
RunBaseResolves(r) ==
  /\ \E i \in 1..Len(runProcesses[r]) :
       LET ref == runProcesses[r][i]
           object == processObjects[ref]
       IN  /\ object.status = "running"
           /\ processObjects' =
                [ processObjects EXCEPT
                    ![ref] =
                      RunCompleted(
                        @,
                        IF object.type = "full-video"
                        THEN [ giftCodes |-> CodesOfVideo(runVideoId[r]) ]
                        ELSE IF object.type = "audio"
                        THEN [ laughterPeaks |-> PeaksOfVideo(runVideoId[r]) ]
                        ELSE [ laughSegments |-> << >> ]) ]
  /\ UNCHANGED << runPc, runVideoId, runProcesses, runTargeted,
                  runLaughTimestamps, runResult, sharedProcesses, runsNow >>
  /\ UNCHANGED << vars, aggVars, dispVars, adaptVars, gateVars, giftVars, sigVars, cleanVars, frameVars, audioVars, scanVars, msgVars, storeVars >>

\* the try block of a run* function of a base object throws
RunBaseRejects(r) ==
  /\ \E i \in 1..Len(runProcesses[r]) :
       LET ref == runProcesses[r][i]
       IN  /\ processObjects[ref].status = "running"
           /\ processObjects' =
                [ processObjects EXCEPT ![ref] = RunFailed(@, "error") ]
  /\ UNCHANGED << runPc, runVideoId, runProcesses, runTargeted,
                  runLaughTimestamps, runResult, sharedProcesses, runsNow >>
  /\ UNCHANGED << vars, aggVars, dispVars, adaptVars, gateVars, giftVars, sigVars, cleanVars, frameVars, audioVars, scanVars, msgVars, storeVars >>

\* Promise.all resolves and waitForLaughTimestamps ends, with the events
\* when audio and transcript are both completed and with none when
\* maxWaitTime has passed; startTargetedAnalysis then creates an object
\* per event, which runTargetedVideoAnalysis stores in activeProcesses
RunStartTargetedAnalysis(r) ==
  /\ runPc[r] = "awaitBase"
  /\ BasePromisesSettled(Deref(runProcesses[r]))
  /\ LET procs == Deref(runProcesses[r])
         found == IF BothCompleted(procs)
                  THEN ExtractLaughTimestamps(FindProcess(procs, "audio"),
                                              FindProcess(procs, "transcript"))
                  ELSE << >>
         refs == [ i \in 1..Len(found) |-> << r, Len(BaseTypes) + i >> ]
     IN  /\ runLaughTimestamps' = [ runLaughTimestamps EXCEPT ![r] = found ]
         /\ runTargeted' = [ runTargeted EXCEPT ![r] = refs ]
         /\ processObjects' =
              [ ref \in DOMAIN processObjects \cup { refs[i] : i \in 1..Len(refs) } |->
                  IF ref \in DOMAIN processObjects THEN processObjects[ref]
                  ELSE RunStart(NewProcess(
                         "targeted-video",
                         [ timeRange |-> TargetWindow(found[ref[2] - Len(BaseTypes)]),
                           laughTimestamp |-> found[ref[2] - Len(BaseTypes)] ])) ]
         /\ sharedProcesses' =
              SetAll(sharedProcesses,
                     [ i \in 1..Len(refs) |->
                         [ id |-> TargetedId(runVideoId[r], found[i], runsNow),
                           type |-> "targeted-video", ref |-> refs[i] ] ])
  /\ runPc' = [ runPc EXCEPT ![r] = "waitAll" ]
  /\ UNCHANGED << runVideoId, runProcesses, runResult, runsNow >>
  /\ UNCHANGED << vars, aggVars, dispVars, adaptVars, gateVars, giftVars, sigVars, cleanVars, frameVars, audioVars, scanVars, msgVars, storeVars >>

\* analyzeVideoSegment resolves in runTargetedVideoAnalysis
RunTargetedResolves(r) ==
  /\ \E i \in 1..Len(runTargeted[r]) :
       LET ref == runTargeted[r][i]
       IN  /\ processObjects[ref].status = "running"
           /\ processObjects' =
                [ processObjects EXCEPT
                    ![ref] = RunCompleted(@, [ giftCodes |-> CodesOfVideo(runVideoId[r]),
                                               timeRange |-> @.call.timeRange,
                                               laughTimestamp |-> @.call.laughTimestamp ]) ]
  /\ UNCHANGED << runPc, runVideoId, runProcesses, runTargeted,
                  runLaughTimestamps, runResult, sharedProcesses, runsNow >>
  /\ UNCHANGED << vars, aggVars, dispVars, adaptVars, gateVars, giftVars, sigVars, cleanVars, frameVars, audioVars, scanVars, msgVars, storeVars >>

\* waitForAllProcesses ends, with nothing pending or when maxWaitTime has
\* passed; aggregateResults(allProcesses), and the run returns
RunAggregate(r) ==
  /\ runPc[r] = "waitAll"
  /\ runResult' = [ runResult EXCEPT ![r] = AggregateResults(AllProcessesOf(r)) ]
  /\ runPc' = [ runPc EXCEPT ![r] = "done" ]
  /\ UNCHANGED << runVideoId, runProcesses, runTargeted, runLaughTimestamps,
                  processObjects, sharedProcesses, runsNow >>
  /\ UNCHANGED << vars, aggVars, dispVars, adaptVars, gateVars, giftVars, sigVars, cleanVars, frameVars, audioVars, scanVars, msgVars, storeVars >>

RunsNext ==
  \/ RunsTick
  \/ \E r \in Runs :
       \/ RunStartParallelAnalysis(r)
       \/ RunBaseResolves(r)
       \/ RunBaseRejects(r)
       \/ RunStartTargetedAnalysis(r)
       \/ RunTargetedResolves(r)
       \/ RunAggregate(r)

RunsSpec == RunsInit /\ [][RunsNext]_runsVars

\* ------------------------------------------------------------ properties

AudioProcess == FindProcess(processes, "audio")
TranscriptProcess == FindProcess(processes, "transcript")
FullVideoProcess == FindProcess(processes, "full-video")

\* the code detections of a verdict, minimal or coordinated
VerdictCodes(v) ==
  IF HasField(v, "giftCodes") THEN v.giftCodes ELSE v.videoAnalysis.giftCodes

\* startTargetedAnalysis has returned
TargetedDispatched == cpc \in {"waitAll", "aggregate", "done"}

\* the codes found by the processes of procs that are completed
CompletedCodes(procs) ==
  UNION { { procs[i].result.giftCodes[k].code :
              k \in 1..Len(procs[i].result.giftCodes) } :
          i \in { j \in 1..Len(procs) :
                    /\ procs[j].status = "completed"
                    /\ HasField(procs[j].result, "giftCodes") } }

CodeSet(giftCodes) == { giftCodes[k].code : k \in 1..Len(giftCodes) }

\* C1: when the thumbnail pre-filter reports no monetary signal, no analysis
\* process is ever dispatched, the coordinator is never entered, and the
\* verdict processVideo returns has recommended action 'ignore' and no code
\* detections.
C1_NegativePrefilterShortCircuits ==
  (thumbnailAnalysis # NoResult /\ ~ thumbnailAnalysis.hasMoneyThumbnail) =>
    /\ processes = << >>
    /\ targetedProcesses = << >>
    /\ cpc = "idle"
    /\ returned # NoResult =>
         /\ returned.summary.recommendedAction = "ignore"
         /\ VerdictCodes(returned) = << >>

C1_Witness ==
  /\ vpc = "returned"
  /\ ~ thumbnailAnalysis.hasMoneyThumbnail
  /\ returned.summary.recommendedAction = "ignore"

\* C2: every coordinated run that has dispatched its base processes
\* eventually reaches Done, whether or not the dispatched processes ever
\* reach a terminal state.
C2_RunReachesDone == (cpc = "awaitBase") ~> (cpc = "done")

\* C3: whenever a targeted process exists, waitForLaughTimestamps has
\* returned, and it returned because the audio and transcript processes
\* were both terminal or because the anchor timeout had expired.
C3_TargetedOnlyAfterAnchorWait ==
  targetedProcesses # << >> =>
    /\ TargetedDispatched
    /\ \/ Terminal(AudioProcess) /\ Terminal(TranscriptProcess)
       \/ waitedLaugh >= AnchorMaxPolls

C3_Witness ==
  /\ targetedProcesses # << >>
  /\ cpc = "waitAll"
  /\ \E i \in 1..Len(targetedProcesses) : targetedProcesses[i].status = "running"

C5_AnchorPhaseIgnoresFrameScan ==
  ( /\ cpc \in {"awaitBase", "waitLaugh", "startTargeted"}
    /\ Terminal(AudioProcess)
    /\ Terminal(TranscriptProcess)
    /\ FullVideoProcess.status = "running" ) =>
    ENABLED CoordinatorStep

C7_WindowLead5Length60 ==
  \A i \in 1..Len(targetedProcesses) :
    LET t == targetedProcesses[i].call.laughTimestamp.timestamp
    IN  targetedProcesses[i].call.timeRange = [ startTime |-> t + 5, endTime |-> t + 5 + 60 ]

\* C7 amended: the window of the targeted process of an event at t is
\* [t + 5, t + 60], and that is the timeRange its result reports.
C7_WindowFrom5To60 ==
  \A i \in 1..Len(targetedProcesses) :
    LET t == targetedProcesses[i].call.laughTimestamp.timestamp
        p == targetedProcesses[i]
    IN  /\ p.call.timeRange = [ startTime |-> t + 5, endTime |-> t + 60 ]
        /\ p.status = "completed" =>
             p.result.timeRange = [ startTime |-> t + 5, endTime |-> t + 60 ]

C7_Witness ==
  \E i \in 1..Len(targetedProcesses) :
    /\ targetedProcesses[i].status = "completed"
    /\ targetedProcesses[i].result.laughTimestamp.timestamp = 42
    /\ targetedProcesses[i].result.timeRange = [ startTime |-> 47, endTime |-> 102 ]

\* C8: when the audio and transcript processes both completed, the targeted
\* processes are exactly one per audio laughter peak followed by one per
\* transcript laugh segment, also when timestamps coincide.
C8_OneTargetedPerEvent ==
  (TargetedDispatched /\ BothCompleted(processes)) =>
    LET peaks == AudioProcess.result.laughterPeaks
        segments == TranscriptProcess.result.laughSegments
    IN  /\ Len(targetedProcesses) = Len(peaks) + Len(segments)
        /\ \A i \in 1..Len(peaks) :
             targetedProcesses[i].call.laughTimestamp =
               [ timestamp |-> peaks[i].startTime, source |-> "audio" ]
        /\ \A i \in 1..Len(segments) :
             targetedProcesses[Len(peaks) + i].call.laughTimestamp =
               [ timestamp |-> segments[i].startTime, source |-> "transcript" ]

C8_Witness ==
  /\ TargetedDispatched
  /\ BothCompleted(processes)
  /\ Len(targetedProcesses) = 2
  /\ targetedProcesses[1].call.laughTimestamp.timestamp =
       targetedProcesses[2].call.laughTimestamp.timestamp

C8_WitnessNoEvents ==
  /\ cpc = "done"
  /\ BothCompleted(processes)
  /\ targetedProcesses = << >>

\* C9: the verdict is computed from the processes that are completed when
\* aggregation runs, and once computed (and once returned by processVideo)
\* it is never changed, in particular not by a process completing later.
C9_VerdictFromTerminalOnly ==
  [][ /\ (cpc = "aggregate" /\ cpc' = "done") =>
           CodeSet(coordResult'.giftCodes) = CompletedCodes(AllProcesses)
      /\ coordResult # NoResult => coordResult' = coordResult
      /\ returned # NoResult => returned' = returned ]_vars

C9_Witness ==
  /\ cpc = "done"
  /\ waitedAll >= AllMaxPolls
  /\ \E i \in 1..Len(targetedProcesses) :
       /\ targetedProcesses[i].status = "completed"
       /\ targetedProcesses[i].result.giftCodes # << >>
       /\ CodeSet(targetedProcesses[i].result.giftCodes) \cap
            CodeSet(coordResult.giftCodes) = {}

\* C10: a failed process keeps its failure reason and has no result, the
\* run goes on to Done with a verdict whose detections and events all come
\* from completed processes, and with all three base processes failed the
\* verdict has no detections, action 'ignore' and the single finding
\* "No significant findings detected".
C10_FailureDoesNotAbort ==
  /\ \A i \in 1..Len(AllProcesses) :
       AllProcesses[i].status = "failed" =>
         /\ AllProcesses[i].error # NoError
         /\ AllProcesses[i].result = NoResult
  /\ cpc = "done" =>
       /\ coordResult # NoResult
       /\ CodeSet(coordResult.giftCodes) \subseteq CompletedCodes(AllProcesses)
       /\ AudioProcess.status = "failed" => coordResult.laughterEvents = << >>
       /\ (\A i \in 1..Len(processes) : processes[i].status = "failed") =>
            /\ coordResult.giftCodes = << >>
            /\ coordResult.summary.recommendedAction = "ignore"
            /\ coordResult.summary.keyFindings =
                 << << "No significant findings detected", 0 >> >>

C10_Witness ==
  /\ cpc = "done"
  /\ \A i \in 1..Len(processes) : processes[i].status = "failed"
  /\ coordResult.summary.recommendedAction = "ignore"

\* C11: in every reachable state, every AnalysisProcess record has its
\* endTime set exactly when its status is 'completed' or 'failed'.
C11_EndTimeIffTerminal ==
  \A i \in 1..Len(AllProcesses) :
    AllProcesses[i].endTimeSet <=> Terminal(AllProcesses[i])

\* the audio process completed and the frame scan failed, both with endTime;
\* a targeted process is still running, without one
C11_Witness ==
  /\ processes # << >>
  /\ AudioProcess.status = "completed" /\ AudioProcess.endTimeSet
  /\ FullVideoProcess.status = "failed" /\ FullVideoProcess.endTimeSet
  /\ \E i \in 1..Len(targetedProcesses) :
       targetedProcesses[i].status = "running"
         /\ ~ targetedProcesses[i].endTimeSet

\* C12: a record is created pending and started in the turn that dispatches
\* it, a running record stays running or becomes completed or failed, and a
\* record that is completed or failed never changes status again.
C12_StatusStep ==
  /\ Len(AllProcesses') >= Len(AllProcesses)
  /\ \A i \in 1..Len(AllProcesses) :
       /\ AllProcesses'[i].type = AllProcesses[i].type
       /\ Terminal(AllProcesses[i]) =>
            AllProcesses'[i].status = AllProcesses[i].status
       /\ AllProcesses[i].status = "running" =>
            AllProcesses'[i].status \in {"running", "completed", "failed"}
       /\ AllProcesses[i].status = "pending" =>
            AllProcesses'[i].status \in {"pending", "running"}
  /\ \A i \in (Len(AllProcesses) + 1)..Len(AllProcesses') :
       AllProcesses'[i].status = "running"

C12_NoExitFromTerminal == [][C12_StatusStep]_vars

\* the run has ended with the frame scan failed and the transcript process
\* completed: every later step of the run has left both as they were
C12_Witness ==
  /\ cpc = "done"
  /\ FullVideoProcess.status = "failed"
  /\ TranscriptProcess.status = "completed"

\* C13: in every reachable state a record has a result only when it is
\* completed and an error only when it is failed, and never both.
C13_ResultXorError ==
  \A i \in 1..Len(AllProcesses) :
    LET p == AllProcesses[i]
    IN  /\ p.result # NoResult => p.status = "completed"
        /\ p.error # NoError => p.status = "failed"
        /\ ~ (p.result # NoResult /\ p.error # NoError)

\* the frame scan failed with a reason and no result, a targeted process
\* completed with a result and no reason
C13_Witness ==
  /\ processes # << >>
  /\ FullVideoProcess.status = "failed"
  /\ FullVideoProcess.error # NoError /\ FullVideoProcess.result = NoResult
  /\ \E i \in 1..Len(targetedProcesses) :
       /\ targetedProcesses[i].status = "completed"
       /\ targetedProcesses[i].result # NoResult
       /\ targetedProcesses[i].error = NoError

\* the normalized codes of the detections in a list
NormalizedCodes(giftCodes) ==
  { NormalizeGiftCode(giftCodes[k].code) : k \in 1..Len(giftCodes) }

\* the normalized codes the completed records of a snapshot carry
SnapshotCodes(snapshot) ==
  UNION { NormalizedCodes(snapshot[i].result.giftCodes) :
            i \in { j \in 1..Len(snapshot) :
                      /\ snapshot[j].status = "completed"
                      /\ HasField(snapshot[j].result, "giftCodes") } }

\* C15: the verdict lists every normalized code that a completed process
\* found exactly once, whichever processes found it and however it was written.
C15_OneDetectionPerNormalizedCode ==
  aggFirst # NoResult =>
    LET g == aggFirst.giftCodes
    IN  /\ \A i, j \in 1..Len(g) :
             i # j => NormalizeGiftCode(g[i].code) # NormalizeGiftCode(g[j].code)
        /\ NormalizedCodes(g) = SnapshotCodes(aggSnapshot)

\* the frame scan read the code with hyphens, the targeted scan read the
\* same code without separators, and the verdict has one detection
C15_Witness ==
  /\ aggFirst # NoResult
  /\ aggSnapshot[1].status = "completed"
  /\ aggSnapshot[4].status = "completed"
  /\ \E k \in 1..Len(aggSnapshot[1].result.giftCodes) :
       aggSnapshot[1].result.giftCodes[k].rawText = RawDashedA
  /\ \E k \in 1..Len(aggSnapshot[4].result.giftCodes) :
       aggSnapshot[4].result.giftCodes[k].rawText = RawCompactA
  /\ Len(aggFirst.giftCodes) = 1

\* C16: the recommended action is 'investigate' exactly when a detection of
\* the verdict has confidence above 0.8, else 'monitor' when the verdict has
\* detections, else 'ignore'.
C16_ActionThresholds ==
  aggFirst # NoResult =>
    LET g == aggFirst.giftCodes
        high == \E k \in 1..Len(g) : g[k].confidence > 80
    IN  aggFirst.summary.recommendedAction =
          IF high THEN "investigate"
          ELSE IF Len(g) > 0 THEN "monitor"
          ELSE "ignore"

\* the most confident detection of the verdict is at exactly 0.8 and the
\* action is 'monitor'
C16_Witness ==
  /\ aggFirst # NoResult
  /\ \E k \in 1..Len(aggFirst.giftCodes) : aggFirst.giftCodes[k].confidence = 80
  /\ \A k \in 1..Len(aggFirst.giftCodes) : aggFirst.giftCodes[k].confidence <= 80
  /\ aggFirst.summary.recommendedAction = "monitor"

\* C17: aggregating the same records in another order gives the same
\* recommended action.
C17_ActionOrderIndependent ==
  (aggFirst # NoResult /\ aggSecond # NoResult) =>
    aggSecond.summary.recommendedAction = aggFirst.summary.recommendedAction

ClockFields == {"processedAt", "processingDuration"}

RECURSIVE ConfidenceTotal(_)
ConfidenceTotal(giftCodes) ==
  IF Len(giftCodes) = 0 THEN 0
  ELSE giftCodes[1].confidence + ConfidenceTotal(Tail(giftCodes))

\* C19 as stated: the overall confidence is the arithmetic mean of the
\* confidences of the verdict's detections, 0 when there are none.
C19_ConfidenceIsExactMean ==
  aggFirst # NoResult =>
    LET g == aggFirst.giftCodes
    IN  IF Len(g) = 0 THEN aggFirst.summary.confidence = 0
        ELSE aggFirst.summary.confidence * Len(g) = ConfidenceTotal(g)

\* C19: the overall confidence is the arithmetic mean of the confidences of
\* the verdict's detections rounded to two decimals (at most half a
\* hundredth away from the mean), 0 when there are none.
C19_ConfidenceIsRoundedMean ==
  aggFirst # NoResult =>
    LET g == aggFirst.giftCodes
        c == aggFirst.summary.confidence
    IN  IF Len(g) = 0 THEN c = 0
        ELSE /\ 2 * (c * Len(g) - ConfidenceTotal(g)) <= Len(g)
             /\ 2 * (ConfidenceTotal(g) - c * Len(g)) <= Len(g)

\* three detections at 0.5, 0.8 and 0.85: the mean 0.7167 is reported as 0.72
C19_Witness ==
  /\ aggFirst # NoResult
  /\ Len(aggFirst.giftCodes) = 3
  /\ ConfidenceTotal(aggFirst.giftCodes) = 215
  /\ aggFirst.summary.confidence = 72

\* no completed record carries a detection: the overall confidence is 0
C19_WitnessNone ==
  /\ aggFirst # NoResult
  /\ Len(aggFirst.giftCodes) = 0
  /\ aggFirst.summary.confidence = 0

\* C14: every record dispatched has an id no other dispatched record has,
\* and every record started is stored in activeProcesses under a key of its
\* own.
C14_IdsUnique ==
  /\ \A i, j \in 1..Len(dProcesses) :
       i # j => dProcesses[i].id # dProcesses[j].id
  /\ dpc \in {"awaitAnchors", "targetedLoop", "dispatched"} =>
       Cardinality(DOMAIN activeProcesses) = Len(dProcesses)

\* C20: no call of analyzeVideo, analyzeAudio or analyzeTranscript ends by
\* throwing, and a call whose provider failed returns the empty result.
C20_AdaptersNeverThrow ==
  /\ analyzeVideoCall.pc # "threw"
  /\ analyzeAudioCall.pc # "threw"
  /\ analyzeTranscriptCall.pc # "threw"
  /\ (analyzeVideoCall.pc = "returned" /\ analyzeVideoCall.providerFailed)
       => analyzeVideoCall.value = EmptyVideoResult
  /\ (analyzeAudioCall.pc = "returned" /\ analyzeAudioCall.providerFailed)
       => analyzeAudioCall.value = EmptyAudioResult
  /\ (analyzeTranscriptCall.pc = "returned"
        /\ analyzeTranscriptCall.providerFailed)
       => analyzeTranscriptCall.value = EmptyTranscriptResult

\* C21: when the OCR provider of the pre-filter fails, the gate proceeds:
\* a run whose client.textDetection rejected is never skipped and never
\* gets the result whose recommended action is "ignore".
C21_ProviderFailureFailsOpen ==
  (visionFailed /\ gpc \in {"skipped", "proceeded"})
    => (gpc = "proceeded" /\ gateResult = NoResult)

\* C22: a run aborts only when the call of the pre-filter raises: the
\* catch block of processVideo, which ends by throwing, is entered from
\* nowhere but the wait for analyzeThumbnail.
C22_AbortOnlyOnPrefilterFailure ==
  [][ (vpc' = "awaitUpdateFailed" /\ vpc # "awaitUpdateFailed")
        => vpc = "awaitThumbnail" ]_vars

\* the detections detectGiftCodes has returned so far, frame after frame
ReturnedDetections == Flatten(giftFrameCodes)

\* three groups of 4, 6 and 4 characters from A-Z and 0-9, joined by hyphens
IsCanonical(code) ==
  /\ Len(code) = 16
  /\ \A i \in 1..16 :
       IF i \in {5, 12} THEN code[i] = "-" ELSE code[i] \in Alphanumerics

\* the alphanumeric characters of a string, and the characters of it
\* that are neither a hyphen, an underscore nor whitespace
AlphanumericsOf(str) == SelectSeq(str, LAMBDA ch : ch \in Alphanumerics)
Stripped(str) ==
  SelectSeq(str, LAMBDA ch : ch \notin {"-", "_", " ", "\t"})

\* C23: every detection detectGiftCodes returns has a code of three
\* hyphen-joined groups of 4, 6 and 4 characters from A-Z and 0-9, and the
\* match it was accepted for leaves exactly 14 characters, all of them
\* alphanumeric, once hyphens, underscores and whitespace are stripped.
C23_CodesCanonical ==
  \A i \in 1..Len(ReturnedDetections) :
    LET detection == ReturnedDetections[i]
    IN  /\ IsCanonical(detection.code)
        /\ Len(Stripped(detection.rawText)) = 14
        /\ AlphanumericsOf(detection.rawText) = Stripped(detection.rawText)

\* a code read in lower case with underscores between its groups was
\* accepted
C23_Witness ==
  /\ \E i \in 1..Len(giftFrames) :
       giftFrames[i].ocrResults[1].text
         = Written(GroupsLowerK, << << "_" >>, << "_" >> >>)
  /\ \E i \in 1..Len(ReturnedDetections) :
       /\ ReturnedDetections[i].rawText
            = Written(GroupsK, << << "_" >>, << "_" >> >>)
       /\ ReturnedDetections[i].code = Written(GroupsK, Dashes)

\* C24: normalizeGiftCode is idempotent on every valid candidate: for a
\* string that leaves exactly 14 alphanumeric characters once the
\* separators are stripped, normalizing what normalizing returned returns
\* the same string.
C24_NormalizeIdempotent ==
  giftNormalized # NoResult =>
    \A i \in 1..Len(giftNormalized.rows) :
      LET row == giftNormalized.rows[i]
      IN  (Len(Stripped(row.candidate)) = 14
             /\ AlphanumericsOf(row.candidate) = Stripped(row.candidate))
            => row.twice = row.once

\* a candidate written with a tab and a space was normalized to the
\* canonical form, which it was not in
C24_Witness ==
  /\ giftNormalized # NoResult
  /\ \E i \in 1..Len(giftNormalized.rows) :
       LET row == giftNormalized.rows[i]
       IN  /\ row.candidate = Written(GroupsK, << << "\t" >>, << " " >> >>)
           /\ row.once = Written(GroupsK, Dashes)
           /\ row.twice = row.once

\* the entries of a list that are the first with their normalized code, in
\* the order of the list
RECURSIVE FirstOccurrencesFrom(_, _)
FirstOccurrencesFrom(codes, index) ==
  IF index > Len(codes) THEN << >>
  ELSE (IF \A j \in 1..(index - 1) :
             NormalizeGiftCode(codes[j].code)
               # NormalizeGiftCode(codes[index].code)
        THEN << codes[index] >> ELSE << >>)
       \o FirstOccurrencesFrom(codes, index + 1)

NoTwoWithSameCode(codes) ==
  \A i, j \in 1..Len(codes) :
    i # j => NormalizeGiftCode(codes[i].code) # NormalizeGiftCode(codes[j].code)

\* C25: what removeDuplicateCodes returns has no two entries with the same
\* normalized code, is made of the first occurrence of each code in the
\* order of the list it was given, and is returned unchanged when the
\* function is applied to it; the same holds of removeDuplicateGiftCodes.
C25_DuplicatesRemoved ==
  /\ \A i \in 1..Len(giftFrameCodes) :
       /\ NoTwoWithSameCode(giftFrameCodes[i])
       /\ giftFrameCodes[i] = FirstOccurrencesFrom(giftPushed[i], 1)
  /\ giftUnique # NoResult =>
       /\ NoTwoWithSameCode(giftUnique.codes)
       /\ giftUnique.codes = FirstOccurrencesFrom(ReturnedDetections, 1)
  /\ giftReapplied # NoResult =>
       /\ giftReapplied.frameCodes = giftFrameCodes
       /\ giftReapplied.codes = giftUnique.codes

\* one frame had the same code pushed more than once, two frames returned
\* the same code, and both functions were applied again
C25_Witness ==
  /\ giftReapplied # NoResult
  /\ \E i \in 1..Len(giftFrameCodes) :
       Len(giftPushed[i]) > Len(giftFrameCodes[i])
  /\ Len(ReturnedDetections) > Len(giftUnique.codes)
  /\ Len(giftUnique.codes) > 0

\* C26: the confidence stored on a detection lies between 0.1 and 1.0,
\* both included, whatever the candidate and the confidence of the OCR
\* result it was read from.
C26_ConfidenceInRange ==
  \A i \in 1..Len(ReturnedDetections) :
    /\ ReturnedDetections[i].confidence >= 10
    /\ ReturnedDetections[i].confidence <= 100

\* a code read with OCR confidence 0 was stored with 0.1 and a code read
\* with OCR confidence 1.0 was stored with 1.0, where the sums were 0.05
\* and 1.05
C26_Witness ==
  \E i, j \in 1..Len(giftFrameCodes) :
    /\ giftFrames[i].ocrResults[1].confidence = 0
    /\ Len(giftFrameCodes[i]) > 0
    /\ RawCodeConfidence(giftFrameCodes[i][1].rawText, 0) < 10
    /\ giftFrameCodes[i][1].confidence = 10
    /\ giftFrames[j].ocrResults[1].confidence = 100
    /\ Len(giftFrameCodes[j]) > 0
    /\ RawCodeConfidence(giftFrameCodes[j][1].rawText, 100) > 100
    /\ giftFrameCodes[j][1].confidence = 100

\* C27: when a webhook secret is configured, verifySignature returns true
\* only for a request whose signature is the HMAC-SHA1 of its body under
\* that secret, written in hex with or without the prefix "sha1=" and in
\* either case; a request without a signature, or with another one, is
\* not let through.
C27_OnlySignedRequestsPass ==
  (sigValid = "valid" /\ ~ IsFalsy(sigSecret)) =>
    /\ sigSignature.present
    /\ [ i \in 1..Len(ReplaceFirst(sigSignature.value, Sha1Prefix)) |->
           ToLowerHex(ReplaceFirst(sigSignature.value, Sha1Prefix)[i]) ]
         = HmacSha1Hex(sigSecret.value, sigBody)

\* C28: a call of cleanup with keepInvestigateResults = true deletes no
\* stored result whose recommended action is "investigate", whatever its
\* age, and deletes no result that is not older than olderThanDays.
C28_InvestigateResultsKept ==
  [][ (clpc # "idle" /\ ~ clOptions.isNumber
         /\ clOptions.keepInvestigateResults = "true")
        => \A doc \in clStore.results \ clStore'.results :
             doc.action # "investigate" /\ doc.age > clOlderThanDays ]_cleanVars

\* C29: the targeted processes of a run do not touch each other's frame
\* files: what a process reads from a frame file is a frame of its own
\* segment, and a process that returns after its ffmpeg ended has read
\* the frames of its segment, each once and in order.
C29_TargetedFramesIndependent ==
  segmentCalls # << >> =>
    \A p \in TargetedCalls :
      /\ \A k \in 1..Len(segmentCalls[p].read) : segmentCalls[p].read[k].owner = p
      /\ (segmentCalls[p].pc = "returned" /\ segmentCalls[p].framePaths # << >>) =>
           segmentCalls[p].read
             = [ k \in 1..segmentCalls[p].count |-> FrameContent(p, k) ]

\* C30: whatever the interleaving of the two passes, the laughter pass of
\* a call in which no provider failed returns one event for every segment
\* whose transcription contains a laughter marker, and no other event.
C30_OneEventPerLaughterSegment ==
  (audioPasses # << >>
     /\ audioPasses["laughter"].pc = "returned"
     /\ ~ audioPasses["laughter"].providerFailed) =>
    \A segment \in AudioSegments :
      Cardinality({ k \in 1..Len(audioPasses["laughter"].pushed) :
                      audioPasses["laughter"].pushed[k] = segment })
        = (IF ContainsLaughter(audioTranscripts[segment]) THEN 1 ELSE 0)


\* how often the characters 0, O, I and 1 occur in a string
Occurrences(str) ==
  Len(SelectSeq(str, LAMBDA ch : ch \in {"0", "O", "I", "1"}))

\* C33: the confidence of a detection is the OCR confidence, plus 0.1 for
\* a match written with two hyphens, minus 0.05 for every occurrence of
\* 0, O, I or 1 in the match, plus 0.05 for a match without a run of four
\* equal characters and without ABCD, 1234 or EFGH, clamped to 0.1..1.0:
\* a match with k occurrences loses k times 0.05 before the clamp.
C33_PenaltyPerOccurrence ==
  \A i \in 1..Len(giftPushed) :
    Len(giftFrames[i].ocrResults) = 1 =>
      \A j \in 1..Len(giftPushed[i]) :
        LET detection == giftPushed[i][j]
            raw == detection.rawText
            sum == giftFrames[i].ocrResults[1].confidence
                     + (IF IsCanonical(raw) THEN 10 ELSE 0)
                     - 5 * Occurrences(raw)
                     + (IF HasTypicalAmazonPattern(Stripped(raw)) THEN 5 ELSE 0)
        IN  detection.confidence
              = (IF sum < 10 THEN 10 ELSE IF sum > 100 THEN 100 ELSE sum)

\* C34: the detectionMethod of a detection names the pattern that matched:
\* a match with whitespace between its groups is "space-separated", one
\* with an underscore is "mixed-separators", one of 14 characters is
\* "compact-format", and one with two hyphens, which the dashed and the
\* mixed pattern both match, is "hyphen-separated" or "mixed-separators".
C34_MethodNamesPattern ==
  \A i \in 1..Len(giftPushed) :
    \A j \in 1..Len(giftPushed[i]) :
      LET detection == giftPushed[i][j]
          raw == detection.rawText
      IN  detection.detectionMethod
            \in (IF \E k \in 1..Len(raw) : raw[k] \in {" ", "\t"}
                 THEN {"space-separated"}
                 ELSE IF \E k \in 1..Len(raw) : raw[k] = "_"
                 THEN {"mixed-separators"}
                 ELSE IF Len(raw) = 14 THEN {"compact-format"}
                 ELSE {"hyphen-separated", "mixed-separators"})

\* the normalized codes the patterns of detectGiftCodes find in a text
CodesIn(chars) ==
  { detection.code :
      detection \in
        { AllDetections(<< [ text |-> chars, confidence |-> 90 ] >>)[k] :
            k \in 1..Len(AllDetections(<< [ text |-> chars,
                                           confidence |-> 90 ] >>)) } }

\* C31: a sampled frame that was analysed and whose recognized text holds
\* a valid 14-character code, in any of the four writings, yields a
\* detection with that code, normalized, in the result of the frame-scan
\* or targeted-scan process.
C31_FrameCodesDetected ==
  scanProcessResult # NoResult =>
    \A i \in 1..Len(scanOutcomes) :
      ~ scanOutcomes[i].null =>
        \A code \in CodesIn(scanFrames[i].chars) :
          \E k \in 1..Len(scanProcessResult.giftCodes) :
            scanProcessResult.giftCodes[k].code = code

\* C32: the verdict of the coordinator covers every event that was
\* extracted in the anchor phase, from the transcript as from the audio:
\* its laughterEvents hold as many events as laughTimestamps, one starting
\* at the timestamp of each, and its key findings report that many
\* laughter events or more.
C32_VerdictCoversAnchorEvents ==
  cpc = "done" =>
    /\ Len(coordResult.laughterEvents) >= Len(laughTimestamps)
    /\ \A i \in 1..Len(laughTimestamps) :
         \E k \in 1..Len(coordResult.laughterEvents) :
           coordResult.laughterEvents[k].startTime
             = laughTimestamps[i].timestamp
    /\ Len(laughTimestamps) > 0 =>
         \E k \in 1..Len(coordResult.summary.keyFindings),
            n \in Len(laughTimestamps)..(2 * MaxEvents) :
           coordResult.summary.keyFindings[k]
             = << "Detected laughter event(s)", n >>

\* C35: handleMessage settles every message once: message.ack and
\* message.nack are never both called and neither is called twice, a
\* message is acked only once its task was created, a message whose
\* handling has returned was acked if the task was added and nacked if
\* parsing or adding the task failed.
C35_MessageSettledOnce ==
  \A m \in 1..Len(messages) :
    LET message == messages[m]
    IN  /\ message.acks + message.nacks <= 1
        /\ message.acks = 1 => (m \in tasks /\ message.outcome = "task added")
        /\ message.pc = "returned" =>
             /\ message.acks + message.nacks = 1
             /\ message.outcome \in {"threw before the task", "task not added"}
                  => message.nacks = 1
             /\ message.outcome = "task added" => message.acks = 1

\* one message was acked after its task was added, one was nacked because
\* its data is no JSON, one because createTask rejected
C35_Witness ==
  \E a, b, c \in 1..Len(messages) :
    /\ messages[a].acks = 1 /\ a \in tasks
    /\ messages[b].nacks = 1 /\ messages[b].payload = "not JSON"
    /\ messages[c].nacks = 1 /\ messages[c].outcome = "task not added"

\* C36: the statuses processVideo stores on the job go from "processing"
\* to "completed" or to "failed" and no further: "completed" is passed to
\* updateJob only once the verdict was saved, nothing is stored after
\* "completed", and when processVideo throws the last status it passed
\* to updateJob is "failed".
C36_JobStatusOrder ==
  /\ jobWritten \in { << >>, << "processing" >>, << "failed" >>,
                      << "processing", "completed" >>,
                      << "processing", "failed" >> }
  /\ (\E i \in 1..Len(jobWrites) : jobWrites[i] = "completed")
       => savedResult # NoResult
  /\ vpc = "threw" => jobWrites[Len(jobWrites)] = "failed"
  /\ vpc = "returned" => jobWritten = << "processing", "completed" >>

\* the update to "completed" was rejected after the verdict was saved, and
\* processVideo threw with "failed" stored after "processing"
C36_Witness ==
  /\ vpc = "threw"
  /\ savedResult # NoResult
  /\ jobWrites = << "processing", "completed", "failed" >>
  /\ jobWritten = << "processing", "failed" >>

\* the findings of a verdict, as a reader of the object finds them
FindingsOf(verdict) ==
  [ giftCodes |-> Property(verdict, "giftCodes"),
    laughterEvents |-> Property(verdict, "laughterEvents"),
    summary |-> Property(verdict, "summary") ]

\* the object getResult returned, with the properties that are undefined
\* left out
Defined(object) ==
  [ f \in { g \in DOMAIN object : g = "videoId" \/ object[g].defined } |->
      IF f = "videoId" THEN object[f] ELSE object[f].value ]

\* C37: when saveResult has stored a coordinated verdict and getResult is
\* then called with its videoId, the verdict returned has the code
\* detections, the time-anchored events and the summary of the one saved.
C37_SaveGetRoundTrip ==
  (storeRead # NoResult /\ storeSaved # << >>) =>
    LET saved == storeSaved[storeRead.videoId]
    IN  (saved # NoResult /\ HasField(saved, "giftCodes")) =>
          /\ ~ storeRead.value.null
          /\ FindingsOf(Defined(storeRead.value.result)) = FindingsOf(saved)

\* the objects a run has dispatched, in the order it created them
DispatchedBy(r) ==
  LET own == { ref \in DOMAIN processObjects : ref[1] = r }
  IN  [ k \in 1..Cardinality(own) |-> processObjects[<< r, k >>] ]

\* C38: two runs that overlap on the one coordinator do not interfere:
\* whenever a run returns, its verdict is the aggregate of the process
\* records that run dispatched, in the order it dispatched them, and of
\* none that the other run stored in activeProcesses.
C38_RunsDoNotInterfere ==
  [][ \A r \in Runs :
        runResult'[r] # runResult[r]
          => runResult'[r] = AggregateResults(DispatchedBy(r)) ]_runsVars

\* the first run has returned a verdict with a code and an event while
\* activeProcesses holds a completed record of the second run, on another
\* video and with another code, and the second run has not returned
C38_Witness ==
  /\ runPc = [ r \in Runs |-> IF r = 1 THEN "done" ELSE "awaitBase" ]
  /\ runVideoId[1] # runVideoId[2]
  /\ Len(runResult[1].giftCodes) = 1
  /\ Len(runResult[1].laughterEvents) = 1
  /\ \E id \in DOMAIN sharedProcesses :
       LET ref == sharedProcesses[id].ref
       IN  /\ ref[1] = 2
           /\ processObjects[ref].status = "completed"
           /\ processObjects[ref].type = "full-video"
           /\ \A k \in 1..Len(runResult[1].giftCodes) :
                runResult[1].giftCodes[k] # processObjects[ref].result.giftCodes[1]
====
